---------------------------- MODULE Spec2Model ----------------------------
(***************************************************************************)
(* BioScout: the retrieval-augmented query subsystem.                      *)
(*                                                                         *)
(*   - routes/query_routes.py     handle_query, the fallback chain         *)
(*   - services/llamaindex_rag.py the vector index path                    *)
(*   - services/simple_rag.py     keyword context building + LLM call      *)
(*   - services/rag_updater.py    the index synchronisation daemon         *)
(*   - services/csv_service.py    the observation store (two CSV files)    *)
(*                                                                         *)
(* Text is a sequence of one-character strings, so that Python's           *)
(* substring test (`needle in haystack`), lower() and split() are computed *)
(* as the code computes them.                                              *)
(***************************************************************************)
EXTENDS Integers, Sequences, FiniteSets, TLC

VARIABLES
  \* the observation store: the rows of plants_observations.csv and
  \* animals_observations.csv (csv_service.PLANTS_CSV, ANIMALS_CSV)
  plants_csv, animals_csv,
  \* the knowledge directory: the files of KNOWLEDGE_DIR
  knowledge_dir,
  \* observation_index_log.json: the list under 'indexed_observations',
  \* and whether the file is there and parses ("list", "missing",
  \* "unparseable"; the list of a file that does not parse is what is left
  \* of its text)
  ledger, ledger_file,
  \* llamaindex_rag.vector_index: None, or the observation ids of the
  \* documents the index holds (a sequence: one entry per inserted document)
  vector_index,
  \* the import outcome of services.llamaindex_rag in query_routes
  \* (query_routes.LLAMAINDEX_AVAILABLE) and of llama_index itself
  \* (llamaindex_rag.LLAMAINDEX_AVAILABLE, rag_updater.LLAMAINDEX_AVAILABLE)
  route_available, llamaindex_available,
  \* one query request: its body, the stages it ran, and what it returned
  request, stages, result, phase,
  \* rag_updater's globals and the clock (seconds)
  needs_update, last_update_time, now, update_lock,
  \* the threads: position, and the locals of the call each is in
  pc, locals,
  \* observations whose creation was notified (process_new_observation)
  notified,
  \* datetime.now().timestamp() * 1000, the millisecond generate_id reads
  timestamp

vars == << plants_csv, animals_csv, knowledge_dir, ledger, ledger_file,
           vector_index, route_available, llamaindex_available, request, stages,
           result, phase, needs_update, last_update_time, now, update_lock, pc,
           locals, notified, timestamp >>

(***************************************************************************)
(* Text                                                                    *)
(***************************************************************************)

\* str.lower() on one character
LowerChar(c) ==
  CASE c = "A" -> "a" [] c = "B" -> "b" [] c = "C" -> "c" [] c = "D" -> "d"
    [] c = "E" -> "e" [] c = "F" -> "f" [] c = "G" -> "g" [] c = "H" -> "h"
    [] c = "I" -> "i" [] c = "J" -> "j" [] c = "K" -> "k" [] c = "L" -> "l"
    [] c = "M" -> "m" [] c = "N" -> "n" [] c = "O" -> "o" [] c = "P" -> "p"
    [] c = "Q" -> "q" [] c = "R" -> "r" [] c = "S" -> "s" [] c = "T" -> "t"
    [] c = "U" -> "u" [] c = "V" -> "v" [] c = "W" -> "w" [] c = "X" -> "x"
    [] c = "Y" -> "y" [] c = "Z" -> "z" [] OTHER -> c

\* str.lower() (the concatenation makes the result a tuple of characters)
Lower(s) == [i \in 1..Len(s) |-> LowerChar(s[i])] \o << >>

\* `needle in hay` for two strings (the empty needle is in every string)
Contains(hay, needle) ==
  \E i \in 0..(Len(hay) - Len(needle)) :
    \A j \in 1..Len(needle) : hay[i + j] = needle[j]

\* str.endswith
EndsWith(s, suffix) ==
  /\ Len(s) >= Len(suffix)
  /\ SubSeq(s, Len(s) - Len(suffix) + 1, Len(s)) = suffix

\* any(word in text for word in words)
AnyIn(words, text) == \E k \in 1..Len(words) : Contains(text, words[k])

\* `x in list`
InList(x, list) == \E k \in 1..Len(list) : list[k] = x

\* [x for x in list if x in text]: the loop of extract_key_terms over one list
Matching(words, text) == SelectSeq(words, LAMBDA w : Contains(text, w))

IsSpace(c) == c \in {" ", "\n", "\t"}

\* str.split(): the maximal runs of non-whitespace characters
RECURSIVE SplitFrom(_, _, _)
SplitFrom(s, i, word) ==
  IF i > Len(s)
    THEN IF word = << >> THEN << >> ELSE << word >>
    ELSE IF IsSpace(s[i])
           THEN (IF word = << >> THEN << >> ELSE << word >>)
                  \o SplitFrom(s, i + 1, << >>)
           ELSE SplitFrom(s, i + 1, Append(word, s[i]))

Split(s) == SplitFrom(s, 1, << >>)

\* s.replace('\n\n', ' ').replace('\n', ' '): the first replace turns each
\* pair of a run of newlines into one space, left to right, and the second
\* the newline a run of odd length has left. So the 1st, 3rd, ... newline
\* of a run gives a space and the 2nd, 4th, ... gives nothing.
RunOffset(s, i) ==
  i - (CHOOSE j \in 0..(i - 1) :
         /\ j = 0 \/ s[j] # "\n"
         /\ \A k \in (j + 1)..(i - 1) : s[k] = "\n")

CollapseNewlines(s) ==
  LET kept == SelectSeq([i \in 1..Len(s) |-> i], LAMBDA i :
                s[i] # "\n" \/ RunOffset(s, i) % 2 = 1)
  IN  [k \in 1..Len(kept) |-> IF s[kept[k]] = "\n" THEN " " ELSE s[kept[k]]]
        \o << >>

\* s[:n]
Prefix(s, n) == SubSeq(s, 1, IF Len(s) < n THEN Len(s) ELSE n)

(***************************************************************************)
(* Limits set in services/simple_rag.py                                    *)
(***************************************************************************)

\* get_relevant_observations returns observations[:10]
MaxSelected == 10

\* build_context: relevant_knowledge[:3], knowledge[:1000], observations[:5]
MaxSnippets == 3

PreviewChars == 1000

MaxContextObservations == 5

(***************************************************************************)
(* The fixed vocabularies and the texts the model draws from               *)
(***************************************************************************)

\* simple_rag.extract_key_terms: known locations in Islamabad
locations ==
  << <<"m","a","r","g","a","l","l","a"," ","h","i","l","l","s">>,
     <<"r","a","w","a","l"," ","l","a","k","e">>,
     <<"s","h","a","k","a","r","p","a","r","i","a","n">>,
     <<"d","a","m","a","n","-","e","-","k","o","h">>,
     <<"p","i","r"," ","s","o","h","a","w","a">>,
     <<"t","r","a","i","l">>,
     <<"i","s","l","a","m","a","b","a","d">>,
     <<"f","-","9"," ","p","a","r","k">>,
     <<"z","o","o">> >>

\* simple_rag.extract_key_terms: animal categories
categories ==
  << <<"b","i","r","d">>,
     <<"b","i","r","d","s">>,
     <<"m","a","m","m","a","l">>,
     <<"m","a","m","m","a","l","s">>,
     <<"r","e","p","t","i","l","e">>,
     <<"r","e","p","t","i","l","e","s">>,
     <<"a","m","p","h","i","b","i","a","n">>,
     <<"a","m","p","h","i","b","i","a","n","s">>,
     <<"f","i","s","h">> >>

\* simple_rag.extract_key_terms: plant categories and types
plant_terms ==
  << <<"p","l","a","n","t">>,
     <<"p","l","a","n","t","s">>,
     <<"t","r","e","e">>,
     <<"t","r","e","e","s">>,
     <<"f","l","o","w","e","r">>,
     <<"f","l","o","w","e","r","s">>,
     <<"s","h","r","u","b">>,
     <<"s","h","r","u","b","s">>,
     <<"h","e","r","b">>,
     <<"h","e","r","b","s">>,
     <<"p","i","n","e">>,
     <<"c","e","d","a","r">>,
     <<"m","e","d","i","c","i","n","a","l">>,
     <<"g","a","r","d","e","n">>,
     <<"f","o","r","e","s","t">>,
     <<"c","o","n","i","f","e","r">>,
     <<"i","n","v","a","s","i","v","e">>,
     <<"n","a","t","i","v","e">>,
     <<"v","e","g","e","t","a","t","i","o","n">>,
     <<"b","o","t","a","n","i","c","a","l">>,
     <<"f","l","o","r","a">> >>

\* simple_rag.extract_key_terms: specific plant species
plant_species ==
  << <<"c","h","i","r"," ","p","i","n","e">>,
     <<"b","l","u","e"," ","p","i","n","e">>,
     <<"h","i","m","a","l","a","y","a","n"," ","c","e","d","a","r">>,
     <<"d","e","o","d","a","r">>,
     <<"p","h","u","l","a","i">>,
     <<"a","c","a","c","i","a">>,
     <<"s","h","i","s","h","a","m">>,
     <<"s","i","r","i","s">>,
     <<"w","i","l","d"," ","d","a","t","e"," ","p","a","l","m">>,
     <<"d","a","t","e"," ","p","a","l","m">>,
     <<"a","m","a","l","t","a","s">>,
     <<"j","a","c","a","r","a","n","d","a">>,
     <<"b","o","t","t","l","e"," ","b","r","u","s","h">>,
     <<"s","i","l","v","e","r"," ","o","a","k">>,
     <<"p","a","p","e","r"," ","m","u","l","b","e","r","r","y">>,
     <<"f","i","c","u","s">>,
     <<"b","e","r">>,
     <<"k","a","u">>,
     <<"s","a","n","a","t","h","a">>,
     <<"a","j","w","a","i","n">>,
     <<"m","i","n","t">>,
     <<"s","a","g","e">>,
     <<"a","l","o","e"," ","v","e","r","a">>,
     <<"t","u","l","s","i">>,
     <<"a","r","j","u","n">>,
     <<"n","e","e","m">> >>

\* llamaindex_rag.extract_key_terms: known locations
llamaindex_locations ==
  << <<"m","a","r","g","a","l","l","a"," ","h","i","l","l","s">>,
     <<"r","a","w","a","l"," ","l","a","k","e">>,
     <<"s","h","a","k","a","r","p","a","r","i","a","n">>,
     <<"d","a","m","a","n","-","e","-","k","o","h">>,
     <<"p","i","r"," ","s","o","h","a","w","a">>,
     <<"t","r","a","i","l">>,
     <<"i","s","l","a","m","a","b","a","d">> >>

\* llamaindex_rag.extract_key_terms: animal categories
llamaindex_categories ==
  << <<"b","i","r","d">>,
     <<"b","i","r","d","s">>,
     <<"m","a","m","m","a","l">>,
     <<"m","a","m","m","a","l","s">>,
     <<"r","e","p","t","i","l","e">>,
     <<"r","e","p","t","i","l","e","s">>,
     <<"a","m","p","h","i","b","i","a","n">>,
     <<"a","m","p","h","i","b","i","a","n","s">>,
     <<"f","i","s","h">> >>

\* csv_service: plant species detection keywords
PLANT_KEYWORDS ==
  << <<"p","i","n","e">>,
     <<"c","e","d","a","r">>,
     <<"t","r","e","e">>,
     <<"p","l","a","n","t">>,
     <<"f","l","o","w","e","r">>,
     <<"s","h","r","u","b">>,
     <<"h","e","r","b">>,
     <<"a","m","a","l","t","a","s">>,
     <<"n","e","e","m">>,
     <<"m","u","l","b","e","r","r","y">>,
     <<"d","a","t","e"," ","p","a","l","m">>,
     <<"s","h","i","s","h","a","m">>,
     <<"b","o","t","t","l","e"," ","b","r","u","s","h">>,
     <<"t","u","l","s","i">>,
     <<"b","l","u","e"," ","p","i","n","e">>,
     <<"c","h","i","r"," ","p","i","n","e">>,
     <<"h","i","m","a","l","a","y","a","n"," ","c","e","d","a","r">>,
     <<"f","e","r","n">>,
     <<"g","r","a","s","s">>,
     <<"v","i","n","e">>,
     <<"b","u","s","h">>,
     <<"c","o","n","i","f","e","r">>,
     <<"o","a","k">>,
     <<"m","a","p","l","e">> >>

\* simple_rag: the terms that make a query a plant query
plant_query_terms ==
  << <<"p","l","a","n","t">>,
     <<"t","r","e","e">>,
     <<"f","l","o","w","e","r">>,
     <<"s","h","r","u","b">>,
     <<"h","e","r","b">>,
     <<"b","o","t","a","n","i","c","a","l">>,
     <<"f","l","o","r","a">>,
     <<"v","e","g","e","t","a","t","i","o","n">> >>

\* simple_rag: the terms that make a query an animal query
animal_query_terms ==
  << <<"a","n","i","m","a","l">>,
     <<"m","a","m","m","a","l">>,
     <<"b","i","r","d">>,
     <<"r","e","p","t","i","l","e">>,
     <<"a","m","p","h","i","b","i","a","n">>,
     <<"f","i","s","h">>,
     <<"w","i","l","d","l","i","f","e">>,
     <<"f","a","u","n","a">> >>

\* simple_rag.get_relevant_knowledge: plant-specific query terms
plant_knowledge_terms ==
  << <<"p","l","a","n","t">>,
     <<"t","r","e","e">>,
     <<"f","l","o","r","a">>,
     <<"v","e","g","e","t","a","t","i","o","n">> >>

\* simple_rag.build_context: plant-focused content words
plant_content_terms ==
  << <<"p","l","a","n","t">>,
     <<"t","r","e","e">>,
     <<"b","o","t","a","n","i","c","a","l">> >>

\* simple_rag.build_context: animal-focused content words
animal_content_terms ==
  << <<"a","n","i","m","a","l">>,
     <<"m","a","m","m","a","l">>,
     <<"b","i","r","d">>,
     <<"w","i","l","d","l","i","f","e">> >>

\* load_knowledge_files: the file name suffix of a knowledge file
txt_suffix ==
  <<".","t","x","t">>

\* the word tested in a knowledge file's name
str_plant ==
  <<"p","l","a","n","t">>

\* the text 'What birds live near Rawal Lake?'
Q_birds_rawal ==
  <<"W","h","a","t"," ","b","i","r","d","s"," ","l","i","v","e"," ","n","e","a","r"," ","R","a","w","a","l"," ","L","a","k","e","?">>

\* the text 'xyzzy'
Q_xyzzy ==
  <<"x","y","z","z","y">>

\* the text 'Tell me about the Himalayan Griffon'
Q_griffon ==
  <<"T","e","l","l"," ","m","e"," ","a","b","o","u","t"," ","t","h","e"," ","H","i","m","a","l","a","y","a","n"," ","G","r","i","f","f","o","n">>

\* the text 'pine trees'
Q_pine_trees ==
  <<"p","i","n","e"," ","t","r","e","e","s">>

\* the text 'birds and plants'
Q_birds_plants ==
  <<"b","i","r","d","s"," ","a","n","d"," ","p","l","a","n","t","s">>

\* the text ''
Q_empty ==
  <<>>

\* the text 'Himalayan Griffon at Rawal Lake'
Q_griffon_rawal ==
  <<"H","i","m","a","l","a","y","a","n"," ","G","r","i","f","f","o","n"," ","a","t"," ","R","a","w","a","l"," ","L","a","k","e">>

\* the text 'Himalayan Griffon birds'
Q_griffon_birds ==
  <<"H","i","m","a","l","a","y","a","n"," ","G","r","i","f","f","o","n"," ","b","i","r","d","s">>

\* the text 'Himalayan Griffon'
Sp_griffon ==
  <<"H","i","m","a","l","a","y","a","n"," ","G","r","i","f","f","o","n">>

\* the text 'Chir Pine'
Sp_chir_pine ==
  <<"C","h","i","r"," ","P","i","n","e">>

\* the text 'Rose'
Sp_rose ==
  <<"R","o","s","e">>

\* the text 'Mallard'
Sp_mallard ==
  <<"M","a","l","l","a","r","d">>

\* the text 'Margalla Hills'
Loc_margalla ==
  <<"M","a","r","g","a","l","l","a"," ","H","i","l","l","s">>

\* the text 'Rawal Lake'
Loc_rawal ==
  <<"R","a","w","a","l"," ","L","a","k","e">>

\* the text 'F-9 Park'
Loc_f9 ==
  <<"F","-","9"," ","P","a","r","k">>

\* the text 'plants.txt'
Fn_plants ==
  <<"p","l","a","n","t","s",".","t","x","t">>

\* the text 'knowledge_1.txt'
Fn_k1 ==
  <<"k","n","o","w","l","e","d","g","e","_","1",".","t","x","t">>

\* the text 'knowledge_2.txt'
Fn_k2 ==
  <<"k","n","o","w","l","e","d","g","e","_","2",".","t","x","t">>

\* the text 'knowledge_3.txt'
Fn_k3 ==
  <<"k","n","o","w","l","e","d","g","e","_","3",".","t","x","t">>

\* the text 'knowledge_4.txt'
Fn_k4 ==
  <<"k","n","o","w","l","e","d","g","e","_","4",".","t","x","t">>

\* the text 'notes.md'
Fn_notes ==
  <<"n","o","t","e","s",".","m","d">>

\* the text 'Pine trees and\n\nflora'
Kc_plants ==
  <<"P","i","n","e"," ","t","r","e","e","s"," ","a","n","d","\n","\n","f","l","o","r","a">>

\* the text 'Birds of\nRawal Lake'
Kc_birds ==
  <<"B","i","r","d","s"," ","o","f","\n","R","a","w","a","l"," ","L","a","k","e">>

\* the text 'Opening hours'
Kc_misc ==
  <<"O","p","e","n","i","n","g"," ","h","o","u","r","s">>

\* a text of 1050 characters, longer than the preview of build_context: 'Birds recorded in the Margalla Hills.\n' and 'The Himalayan griffon soars over the ridge. ' 23 times
Kc_long ==
  <<"B","i","r","d","s"," ","r","e","c","o","r","d","e","d"," ","i","n"," ",
    "t","h","e"," ","M","a","r","g","a","l","l","a"," ","H","i","l","l","s",
    ".","\n","T","h","e"," ","H","i","m","a","l","a","y","a","n"," ","g","r",
    "i","f","f","o","n"," ","s","o","a","r","s"," ","o","v","e","r"," ","t",
    "h","e"," ","r","i","d","g","e","."," ","T","h","e"," ","H","i","m","a",
    "l","a","y","a","n"," ","g","r","i","f","f","o","n"," ","s","o","a","r",
    "s"," ","o","v","e","r"," ","t","h","e"," ","r","i","d","g","e","."," ",
    "T","h","e"," ","H","i","m","a","l","a","y","a","n"," ","g","r","i","f",
    "f","o","n"," ","s","o","a","r","s"," ","o","v","e","r"," ","t","h","e",
    " ","r","i","d","g","e","."," ","T","h","e"," ","H","i","m","a","l","a",
    "y","a","n"," ","g","r","i","f","f","o","n"," ","s","o","a","r","s"," ",
    "o","v","e","r"," ","t","h","e"," ","r","i","d","g","e","."," ","T","h",
    "e"," ","H","i","m","a","l","a","y","a","n"," ","g","r","i","f","f","o",
    "n"," ","s","o","a","r","s"," ","o","v","e","r"," ","t","h","e"," ","r",
    "i","d","g","e","."," ","T","h","e"," ","H","i","m","a","l","a","y","a",
    "n"," ","g","r","i","f","f","o","n"," ","s","o","a","r","s"," ","o","v",
    "e","r"," ","t","h","e"," ","r","i","d","g","e","."," ","T","h","e"," ",
    "H","i","m","a","l","a","y","a","n"," ","g","r","i","f","f","o","n"," ",
    "s","o","a","r","s"," ","o","v","e","r"," ","t","h","e"," ","r","i","d",
    "g","e","."," ","T","h","e"," ","H","i","m","a","l","a","y","a","n"," ",
    "g","r","i","f","f","o","n"," ","s","o","a","r","s"," ","o","v","e","r",
    " ","t","h","e"," ","r","i","d","g","e","."," ","T","h","e"," ","H","i",
    "m","a","l","a","y","a","n"," ","g","r","i","f","f","o","n"," ","s","o",
    "a","r","s"," ","o","v","e","r"," ","t","h","e"," ","r","i","d","g","e",
    "."," ","T","h","e"," ","H","i","m","a","l","a","y","a","n"," ","g","r",
    "i","f","f","o","n"," ","s","o","a","r","s"," ","o","v","e","r"," ","t",
    "h","e"," ","r","i","d","g","e","."," ","T","h","e"," ","H","i","m","a",
    "l","a","y","a","n"," ","g","r","i","f","f","o","n"," ","s","o","a","r",
    "s"," ","o","v","e","r"," ","t","h","e"," ","r","i","d","g","e","."," ",
    "T","h","e"," ","H","i","m","a","l","a","y","a","n"," ","g","r","i","f",
    "f","o","n"," ","s","o","a","r","s"," ","o","v","e","r"," ","t","h","e",
    " ","r","i","d","g","e","."," ","T","h","e"," ","H","i","m","a","l","a",
    "y","a","n"," ","g","r","i","f","f","o","n"," ","s","o","a","r","s"," ",
    "o","v","e","r"," ","t","h","e"," ","r","i","d","g","e","."," ","T","h",
    "e"," ","H","i","m","a","l","a","y","a","n"," ","g","r","i","f","f","o",
    "n"," ","s","o","a","r","s"," ","o","v","e","r"," ","t","h","e"," ","r",
    "i","d","g","e","."," ","T","h","e"," ","H","i","m","a","l","a","y","a",
    "n"," ","g","r","i","f","f","o","n"," ","s","o","a","r","s"," ","o","v",
    "e","r"," ","t","h","e"," ","r","i","d","g","e","."," ","T","h","e"," ",
    "H","i","m","a","l","a","y","a","n"," ","g","r","i","f","f","o","n"," ",
    "s","o","a","r","s"," ","o","v","e","r"," ","t","h","e"," ","r","i","d",
    "g","e","."," ","T","h","e"," ","H","i","m","a","l","a","y","a","n"," ",
    "g","r","i","f","f","o","n"," ","s","o","a","r","s"," ","o","v","e","r",
    " ","t","h","e"," ","r","i","d","g","e","."," ","T","h","e"," ","H","i",
    "m","a","l","a","y","a","n"," ","g","r","i","f","f","o","n"," ","s","o",
    "a","r","s"," ","o","v","e","r"," ","t","h","e"," ","r","i","d","g","e",
    "."," ","T","h","e"," ","H","i","m","a","l","a","y","a","n"," ","g","r",
    "i","f","f","o","n"," ","s","o","a","r","s"," ","o","v","e","r"," ","t",
    "h","e"," ","r","i","d","g","e","."," ","T","h","e"," ","H","i","m","a",
    "l","a","y","a","n"," ","g","r","i","f","f","o","n"," ","s","o","a","r",
    "s"," ","o","v","e","r"," ","t","h","e"," ","r","i","d","g","e","."," ",
    "T","h","e"," ","H","i","m","a","l","a","y","a","n"," ","g","r","i","f",
    "f","o","n"," ","s","o","a","r","s"," ","o","v","e","r"," ","t","h","e",
    " ","r","i","d","g","e","."," ","T","h","e"," ","H","i","m","a","l","a",
    "y","a","n"," ","g","r","i","f","f","o","n"," ","s","o","a","r","s"," ",
    "o","v","e","r"," ","t","h","e"," ","r","i","d","g","e","."," ","T","h",
    "e"," ","H","i","m","a","l","a","y","a","n"," ","g","r","i","f","f","o",
    "n"," ","s","o","a","r","s"," ","o","v","e","r"," ","t","h","e"," ","r",
    "i","d","g","e","."," ">>

\* create_default_knowledge_files: the three files it writes
default_content_1 ==
  <<"#"," ","M","a","r","g","a","l","l","a"," ","H","i","l","l","s"," ","B",
    "i","o","d","i","v","e","r","s","i","t","y","\n","\n","M","a","r","g",
    "a","l","l","a"," ","H","i","l","l","s"," ","N","a","t","i","o","n","a",
    "l"," ","P","a","r","k"," ","i","s"," ","h","o","m","e"," ","t","o"," ",
    "d","i","v","e","r","s","e"," ","w","i","l","d","l","i","f","e"," ","i",
    "n","c","l","u","d","i","n","g"," ","t","h","e"," ","c","o","m","m","o",
    "n"," ","l","e","o","p","a","r","d",","," ","\n"," "," "," "," "," ",
    " "," "," "," "," "," "," ","b","a","r","k","i","n","g"," ","d","e","e",
    "r",","," ","w","i","l","d"," ","b","o","a","r",","," ","r","h","e","s",
    "u","s"," ","m","a","c","a","q","u","e",","," ","a","n","d"," ","v","a",
    "r","i","o","u","s"," ","b","i","r","d"," ","s","p","e","c","i","e","s",
    "."," ","T","h","e"," ","p","a","r","k"," ","i","s"," ","k","n","o","w",
    "n"," ","f","o","r"," ","\n"," "," "," "," "," "," "," "," "," "," ",
    " "," ","i","t","s"," ","r","i","c","h"," ","b","i","o","d","i","v","e",
    "r","s","i","t","y"," ","w","i","t","h"," ","o","v","e","r"," ","6","0",
    "0"," ","p","l","a","n","t"," ","s","p","e","c","i","e","s",","," ","2",
    "5","0"," ","b","i","r","d"," ","s","p","e","c","i","e","s",","," ","3",
    "8"," ","m","a","m","m","a","l"," ","s","p","e","c","i","e","s",","," ",
    "\n"," "," "," "," "," "," "," "," "," "," "," "," ","a","n","d"," ",
    "1","3"," ","r","e","p","t","i","l","e"," ","s","p","e","c","i","e","s",
    "."," ","N","o","t","a","b","l","e"," ","b","i","r","d","s"," ","i","n",
    "c","l","u","d","e"," ","t","h","e"," ","E","g","y","p","t","i","a","n",
    " ","v","u","l","t","u","r","e",","," ","H","i","m","a","l","a","y","a",
    "n"," ","g","r","i","f","f","o","n",","," ","\n"," "," "," "," "," ",
    " "," "," "," "," "," "," ","l","a","g","g","a","r"," ","f","a","l","c",
    "o","n",","," ","p","e","r","e","g","r","i","n","e"," ","f","a","l","c",
    "o","n",","," ","k","e","s","t","r","e","l",","," ","I","n","d","i","a",
    "n"," ","s","p","a","r","r","o","w"," ","h","a","w","k",","," ","a","n",
    "d"," ","s","p","o","t","t","e","d"," ","o","w","l","e","t",".","\n",
    "\n","S","o","u","r","c","e",":"," ","I","s","l","a","m","a","b","a",
    "d"," ","W","i","l","d","l","i","f","e"," ","M","a","n","a","g","e","m",
    "e","n","t"," ","B","o","a","r","d","\n","C","a","t","e","g","o","r",
    "y",":"," ","B","i","o","d","i","v","e","r","s","i","t","y","\n","R",
    "e","g","i","o","n",":"," ","M","a","r","g","a","l","l","a"," ","H","i",
    "l","l","s">>

default_content_2 ==
  <<"#"," ","R","a","w","a","l"," ","L","a","k","e"," ","E","c","o","s","y",
    "s","t","e","m","\n","\n","R","a","w","a","l"," ","L","a","k","e"," ",
    "i","s"," ","a","n"," ","a","r","t","i","f","i","c","i","a","l"," ","r",
    "e","s","e","r","v","o","i","r"," ","t","h","a","t"," ","p","r","o","v",
    "i","d","e","s"," ","w","a","t","e","r"," ","t","o"," ","I","s","l","a",
    "m","a","b","a","d"," ","a","n","d"," ","R","a","w","a","l","p","i","n",
    "d","i","."," ","\n"," "," "," "," "," "," "," "," "," "," "," "," ",
    "T","h","e"," ","l","a","k","e"," ","h","o","s","t","s"," ","n","u","m",
    "e","r","o","u","s"," ","m","i","g","r","a","t","o","r","y"," ","b","i",
    "r","d","s"," ","d","u","r","i","n","g"," ","w","i","n","t","e","r",",",
    " ","i","n","c","l","u","d","i","n","g"," ","m","a","l","l","a","r","d",
    "s",","," ","p","o","c","h","a","r","d","s",","," ","\n"," "," "," ",
    " "," "," "," "," "," "," "," "," ","c","o","o","t","s",","," ","a","n",
    "d"," ","h","e","r","o","n","s","."," ","F","i","s","h"," ","s","p","e",
    "c","i","e","s"," ","i","n","c","l","u","d","e"," ","c","o","m","m","o",
    "n"," ","c","a","r","p",","," ","r","o","h","u",","," ","a","n","d"," ",
    "m","a","h","s","e","e","r","."," ","T","h","e"," ","s","u","r","r","o",
    "u","n","d","i","n","g"," ","\n"," "," "," "," "," "," "," "," "," ",
    " "," "," ","v","e","g","e","t","a","t","i","o","n"," ","i","n","c","l",
    "u","d","e","s"," ","a","c","a","c","i","a",","," ","p","i","n","e",",",
    " ","a","n","d"," ","e","u","c","a","l","y","p","t","u","s"," ","t","r",
    "e","e","s","."," ","T","h","e"," ","l","a","k","e"," ","a","l","s","o",
    " ","s","u","p","p","o","r","t","s"," ","v","a","r","i","o","u","s"," ",
    "\n"," "," "," "," "," "," "," "," "," "," "," "," ","r","e","p","t",
    "i","l","e","s"," ","s","u","c","h"," ","a","s"," ","m","o","n","i","t",
    "o","r"," ","l","i","z","a","r","d","s"," ","a","n","d"," ","s","n","a",
    "k","e","s",".","\n","\n","S","o","u","r","c","e",":"," ","P","a","k",
    "i","s","t","a","n"," ","E","n","v","i","r","o","n","m","e","n","t","a",
    "l"," ","P","r","o","t","e","c","t","i","o","n"," ","A","g","e","n","c",
    "y","\n","C","a","t","e","g","o","r","y",":"," ","A","q","u","a","t",
    "i","c"," ","E","c","o","s","y","s","t","e","m","s","\n","R","e","g",
    "i","o","n",":"," ","R","a","w","a","l"," ","L","a","k","e">>

default_content_3 ==
  <<"#"," ","T","h","r","e","a","t","e","n","e","d"," ","S","p","e","c","i",
    "e","s"," ","i","n"," ","I","s","l","a","m","a","b","a","d","\n","\n",
    "S","e","v","e","r","a","l"," ","s","p","e","c","i","e","s"," ","f","o",
    "u","n","d"," ","i","n"," ","I","s","l","a","m","a","b","a","d"," ","a",
    "r","e"," ","c","o","n","s","i","d","e","r","e","d"," ","t","h","r","e",
    "a","t","e","n","e","d"," ","o","r"," ","e","n","d","a","n","g","e","r",
    "e","d",","," ","i","n","c","l","u","d","i","n","g"," ","t","h","e"," ",
    "\n"," "," "," "," "," "," "," "," "," "," "," "," ","I","n","d","i",
    "a","n"," ","p","a","n","g","o","l","i","n",","," ","s","m","o","o","t",
    "h","-","c","o","a","t","e","d"," ","o","t","t","e","r",","," ","a","n",
    "d"," ","H","i","m","a","l","a","y","a","n"," ","b","l","a","c","k"," ",
    "b","e","a","r","."," ","T","h","e"," ","I","n","d","i","a","n"," ","p",
    "a","n","g","o","l","i","n"," ","i","s"," ","\n"," "," "," "," "," ",
    " "," "," "," "," "," "," ","c","r","i","t","i","c","a","l","l","y"," ",
    "e","n","d","a","n","g","e","r","e","d"," ","d","u","e"," ","t","o"," ",
    "p","o","a","c","h","i","n","g"," ","f","o","r"," ","i","t","s"," ","s",
    "c","a","l","e","s","."," ","C","o","n","s","e","r","v","a","t","i","o",
    "n"," ","e","f","f","o","r","t","s"," ","f","o","c","u","s"," ","o","n",
    " ","\n"," "," "," "," "," "," "," "," "," "," "," "," ","h","a","b",
    "i","t","a","t"," ","p","r","o","t","e","c","t","i","o","n",","," ","a",
    "n","t","i","-","p","o","a","c","h","i","n","g"," ","m","e","a","s","u",
    "r","e","s",","," ","a","n","d"," ","p","u","b","l","i","c"," ","a","w",
    "a","r","e","n","e","s","s"," ","c","a","m","p","a","i","g","n","s",".",
    "\n","\n","S","o","u","r","c","e",":"," ","I","U","C","N"," ","R","e",
    "d"," ","L","i","s","t","\n","C","a","t","e","g","o","r","y",":"," ",
    "C","o","n","s","e","r","v","a","t","i","o","n","\n","R","e","g","i",
    "o","n",":"," ","I","s","l","a","m","a","b","a","d">>

default_knowledge ==
  << [filename |-> <<"k","n","o","w","l","e","d","g","e","_","1",".","t","x","t">>, content |-> default_content_1],
     [filename |-> <<"k","n","o","w","l","e","d","g","e","_","2",".","t","x","t">>, content |-> default_content_2],
     [filename |-> <<"k","n","o","w","l","e","d","g","e","_","3",".","t","x","t">>, content |-> default_content_3] >>

(***************************************************************************)
(* services/csv_service.py: the observation store                          *)
(***************************************************************************)

\* An observation row: [id, species_name, location, category, coordinates];
\* coordinates is << >> (none) or << longitude, latitude >>.

is_plant_species(species_name) ==
  IF species_name = << >> THEN FALSE
  ELSE AnyIn(PLANT_KEYWORDS, Lower(species_name))

\* save_observation with the id generate_id() returned: the row goes to the
\* file that the species name selects, whatever its category field says
save_observation_plants(plants, row) ==
  IF is_plant_species(row.species_name) THEN Append(plants, row) ELSE plants

save_observation_animals(animals, row) ==
  IF is_plant_species(row.species_name) THEN animals ELSE Append(animals, row)

find_all_observations(plants, animals) == plants \o animals

find_all_plant_observations(plants, animals) == plants

find_all_animal_observations(plants, animals) == animals

(***************************************************************************)
(* services/simple_rag.py                                                  *)
(***************************************************************************)

\* load_knowledge_files: the .txt files of the knowledge directory
load_knowledge_files(dir) ==
  SelectSeq(dir, LAMBDA f : EndsWith(f.filename, txt_suffix))

extract_key_terms(query) ==
  LET query_lower == Lower(query)
  IN  Matching(locations, query_lower) \o Matching(categories, query_lower)
        \o Matching(plant_terms, query_lower)
        \o Matching(plant_species, query_lower)

is_plant_query(query) == AnyIn(plant_query_terms, Lower(query))

is_animal_query(query) == AnyIn(animal_query_terms, Lower(query))

\* for x in items: if x not in acc: acc.append(x)
RECURSIVE AppendNew(_, _, _)
AppendNew(acc, items, k) ==
  IF k > Len(items) THEN acc
  ELSE AppendNew(IF InList(items[k], acc) THEN acc ELSE Append(acc, items[k]),
                 items, k + 1)

\* get_relevant_knowledge, second loop: one file at a time
RECURSIVE knowledge_term_loop(_, _, _, _, _)
knowledge_term_loop(files, terms, words, relevant_content, k) ==
  IF k > Len(files) THEN relevant_content
  ELSE
    LET content_lower == Lower(files[k].content)
        hit == \/ AnyIn(terms, content_lower)
               \/ \E w \in 1..Len(words) :
                    Len(words[w]) > 3 /\ Contains(content_lower, words[w])
        next == IF hit /\ ~InList(files[k].content, relevant_content)
                  THEN Append(relevant_content, files[k].content)
                  ELSE relevant_content
    IN  knowledge_term_loop(files, terms, words, next, k + 1)

get_relevant_knowledge(query, knowledge_files) ==
  LET query_lower == Lower(query)
      terms == extract_key_terms(query)
      plant_first ==
        IF AnyIn(plant_knowledge_terms, query_lower)
          THEN [i \in 1..Len(SelectSeq(knowledge_files,
                    LAMBDA f : Contains(Lower(f.filename), str_plant))) |->
                  SelectSeq(knowledge_files,
                    LAMBDA f : Contains(Lower(f.filename), str_plant))[i].content]
          ELSE << >>
  IN  knowledge_term_loop(knowledge_files, terms, Split(query_lower),
                          plant_first, 1)

\* Faulty variant of observation_term_loop: the whole pool is taken
observation_term_loop_whole_pool(key_terms, base_observations, observations, k) ==
  base_observations

\* get_relevant_observations, the loop over the key terms
RECURSIVE observation_term_loop(_, _, _, _)
observation_term_loop(key_terms, base_observations, observations, k) ==
  IF k > Len(key_terms) THEN observations
  ELSE
    LET term == key_terms[k]
        species_observations ==
          SelectSeq(base_observations, LAMBDA obs :
            /\ Contains(Lower(obs.species_name), term)
            /\ ~InList(obs, observations))
        by_location ==
          SelectSeq(base_observations, LAMBDA obs :
            Contains(Lower(obs.location), term))
        next == IF species_observations = << >>
                  THEN AppendNew(observations, by_location, 1)
                  ELSE observations \o species_observations
    IN  observation_term_loop(key_terms, base_observations, next, k + 1)

\* Faulty variant of exact_or_key_terms: the key terms are tried although
\* a species was named in the query
exact_and_key_terms(exact, by_key_terms) == by_key_terms

\* get_relevant_observations, line 149: `if not observations:` the key
\* terms are tried only when no species name was found in the query
exact_or_key_terms(exact, by_key_terms) ==
  IF exact # << >> THEN exact ELSE by_key_terms

get_relevant_observations(query, plants, animals) ==
  LET key_terms == extract_key_terms(query)
      plant_q == is_plant_query(query)
      animal_q == is_animal_query(query)
      base_observations ==
        IF plant_q /\ ~animal_q THEN find_all_plant_observations(plants, animals)
        ELSE IF animal_q /\ ~plant_q
               THEN find_all_animal_observations(plants, animals)
               ELSE find_all_observations(plants, animals)
      exact == AppendNew(<< >>,
                 SelectSeq(base_observations, LAMBDA obs :
                   /\ obs.species_name # << >>
                   /\ Contains(Lower(query), Lower(obs.species_name))), 1)
      observations ==
        exact_or_key_terms(exact,
          observation_term_loop(key_terms, base_observations, exact, 1))
  IN  Prefix(observations, MaxSelected)

\* Faulty variant of knowledge_piece: the whole text is taken
knowledge_piece_whole(i, knowledge) ==
  [kind |-> "snippet", n |-> i, text |-> CollapseNewlines(knowledge)]

\* The context is the sequence of the pieces build_context concatenates;
\* every piece stands for a non-empty text, so the context is the empty
\* string exactly when the sequence is empty.
\* build_context, lines 209-212: the preview of the i-th text
knowledge_piece(i, knowledge) ==
  [kind |-> "snippet", n |-> i,
   text |-> CollapseNewlines(Prefix(knowledge, PreviewChars))]

observation_piece(obs) ==
  [kind |-> "observation", n |-> 0,
   text |-> obs.species_name \o << "@" >> \o obs.location]

build_context(query, knowledge_files, observations) ==
  LET plant_q == is_plant_query(query)
      animal_q == is_animal_query(query)
      by_category ==
        SelectSeq(knowledge_files, LAMBDA f :
          IF plant_q /\ ~animal_q
            THEN AnyIn(plant_content_terms, Lower(f.content))
            ELSE IF animal_q /\ ~plant_q
                   THEN AnyIn(animal_content_terms, Lower(f.content))
                   ELSE FALSE)
      relevant_knowledge ==
        IF by_category # << >>
          THEN [i \in 1..Len(by_category) |-> by_category[i].content]
          ELSE get_relevant_knowledge(query, knowledge_files)
      top == Prefix(relevant_knowledge, MaxSnippets)
      shown == Prefix(observations, MaxContextObservations)
      knowledge_part ==
        IF relevant_knowledge = << >> THEN << >>
        ELSE << [kind |-> "knowledge_header", n |-> 0, text |-> << >>] >>
               \o [i \in 1..Len(top) |-> knowledge_piece(i, top[i])]
      observation_part ==
        IF observations = << >> THEN << >>
        ELSE << [kind |-> "observations_header", n |-> 0, text |-> << >>] >>
               \o [i \in 1..Len(shown) |-> observation_piece(shown[i])]
  IN  knowledge_part \o observation_part

\* process_query, lines 238-239: the context handed to the LLM
no_information_found ==
  << [kind |-> "no_information_found", n |-> 0, text |-> << >>] >>

\* Faulty variant of llm_context: the empty context is passed on as it is
llm_context_unguarded(context) == context

llm_context(context) ==
  IF context = << >> THEN no_information_found ELSE context

format_observations(observations) ==
  LET with_coordinates ==
        SelectSeq(observations, LAMBDA obs : obs.coordinates # << >>)
  IN  [i \in 1..Len(with_coordinates) |->
        [id |-> with_coordinates[i].id,
         species |-> with_coordinates[i].species_name,
         location |-> with_coordinates[i].location,
         coordinates |-> with_coordinates[i].coordinates]]

\* A returned dict: the keys it has, and the values of the keys the callers
\* read (observations is << >> when the key is absent)
Dict(keys, response, success, observations) ==
  [keys |-> keys, response |-> response, success |-> success,
   observations |-> observations]

\* One entry of the log of stages a request ran: the stage, the observations
\* it selected, the context it handed to the LLM (<< >>: none built) and the
\* LLM call's outcome ("ok", "failed", "not_called")
Stage(name, observations, context, llm) ==
  [name |-> name, observations |-> observations, context |-> context,
   llm |-> llm]

SIMPLE_APOLOGY ==
  "I'm sorry, I'm having trouble processing your question at the moment. Please try again later."

\* simple_rag.process_query, lines 228-239: the context it hands to the LLM
\* for the observations it selected
simple_context(req, dir, observations) ==
  llm_context(build_context(req.query, load_knowledge_files(dir), observations))

\* Faulty variant of simple_failure: the selected observations are kept in
\* the dict of the except branch
simple_failure_keeping_observations(observations) ==
  Dict({"response", "success", "observations"}, SIMPLE_APOLOGY, FALSE,
       format_observations(observations))

\* simple_rag.process_query, lines 263-269: the dict of the except branch
simple_failure(observations) ==
  Dict({"response", "success", "observations"}, SIMPLE_APOLOGY, FALSE, << >>)

\* Faulty variant of simple_process_query: the outcome of the LLM call is
\* not looked at
simple_process_query_ignoring_llm(req, observations, llm_ok) ==
  IF req.kind = "text"
    THEN Dict({"response", "success", "observations", "using_fallback"},
              "generated", TRUE, format_observations(observations))
    ELSE simple_failure(observations)

\* simple_rag.process_query: the dict it returns, given the observations
\* get_relevant_observations selected. A query that is no text raises at
\* query.lower() inside the try block, before any LLM call.
simple_process_query(req, observations, llm_ok) ==
  IF req.kind = "text" /\ llm_ok
    THEN Dict({"response", "success", "observations", "using_fallback"},
              "generated", TRUE, format_observations(observations))
    ELSE simple_failure(observations)

\* the entry of the stage log for one run of simple_rag.process_query
simple_stage(req, observations, context, llm_ok) ==
  IF req.kind # "text"
    THEN Stage("simple_rag.process_query", << >>, << >>, "not_called")
    ELSE Stage("simple_rag.process_query", observations, context,
               IF llm_ok THEN "ok" ELSE "failed")

(***************************************************************************)
(* services/llamaindex_rag.py                                              *)
(***************************************************************************)

\* vector_index: None, or the index built by VectorStoreIndex.from_documents
\* with the documents inserted since
NoIndex == [built |-> FALSE, knowledge |-> << >>, observations |-> << >>]

Ids(observations) ==
  [i \in 1..Len(observations) |-> observations[i].id] \o << >>

\* create_documents_from_observations, run without interruption: the ids
\* of the documents it creates (each is logged as indexed on creation)
create_documents_from_observations(indexed_ids, plants, animals) ==
  Ids(SelectSeq(find_all_observations(plants, animals), LAMBDA obs :
        ~(indexed_ids # << >> /\ InList(obs.id, indexed_ids))))

\* Faulty variant of initialize_index: an empty knowledge directory is
\* loaded as it is
initialize_index_unseeded(outcome, available, index, dir, indexed_ids, plants, animals) ==
  LET documents == create_documents_from_observations(indexed_ids, plants, animals)
  IN  IF ~available \/ outcome = "fail_config"
        THEN [ok |-> FALSE, vector_index |-> index, knowledge_dir |-> dir,
              ledger |-> indexed_ids]
        ELSE [ok |-> outcome = "ok",
              vector_index |->
                IF outcome = "ok"
                  THEN [built |-> TRUE,
                        knowledge |-> [i \in 1..Len(dir) |-> dir[i].filename],
                        observations |-> documents]
                  ELSE index,
              knowledge_dir |-> dir,
              ledger |-> AppendNew(indexed_ids, documents, 1)]

\* initialize_index, run without interruption. outcome: "fail_config" (an
\* exception before the observation documents are created), "fail_embed"
\* (VectorStoreIndex.from_documents raises), "ok".
initialize_index(outcome, available, index, dir, indexed_ids, plants, animals) ==
  LET seeded == IF dir = << >> THEN default_knowledge ELSE dir
      documents == create_documents_from_observations(indexed_ids, plants, animals)
  IN  IF ~available \/ outcome = "fail_config"
        THEN [ok |-> FALSE, vector_index |-> index, knowledge_dir |-> dir,
              ledger |-> indexed_ids]
        ELSE [ok |-> outcome = "ok",
              vector_index |->
                IF outcome = "ok"
                  THEN [built |-> TRUE,
                        knowledge |-> [i \in 1..Len(seeded) |-> seeded[i].filename],
                        observations |-> documents]
                  ELSE index,
              knowledge_dir |-> seeded,
              ledger |-> AppendNew(indexed_ids, documents, 1)]

llamaindex_extract_key_terms(query) ==
  LET query_lower == Lower(query)
  IN  Matching(llamaindex_locations, query_lower)
        \o Matching(llamaindex_categories, query_lower)

find_observations_by_species(species_name, plants, animals) ==
  IF species_name = << >> THEN << >>
  ELSE SelectSeq(IF is_plant_species(Lower(species_name)) THEN plants ELSE animals,
                 LAMBDA obs : Contains(Lower(obs.species_name), Lower(species_name)))

find_observations_by_location(location_name, plants, animals) ==
  IF location_name = << >> THEN << >>
  ELSE SelectSeq(plants \o animals,
                 LAMBDA obs : Contains(Lower(obs.location), Lower(location_name)))

\* process_query, lines 293-300: the observations looked up term by term
RECURSIVE observation_results(_, _, _, _)
observation_results(key_terms, plants, animals, k) ==
  IF k > Len(key_terms) THEN << >>
  ELSE find_observations_by_species(key_terms[k], plants, animals)
         \o find_observations_by_location(key_terms[k], plants, animals)
         \o observation_results(key_terms, plants, animals, k + 1)

FALLBACK_APOLOGY ==
  "I'm sorry, I'm having trouble processing your question at the moment. Please try again later."

\* Faulty variant of fallback_response: its except branch reports success
fallback_response_always_success(query, observations, llm_ok) ==
  Dict({"response", "success", "observations", "note"},
       IF llm_ok THEN "generated" ELSE FALLBACK_APOLOGY, TRUE,
       format_observations(observations))

\* fallback_response: a direct LLM call over the observations only
fallback_response(query, observations, llm_ok) ==
  IF llm_ok
    THEN Dict({"response", "success", "observations", "note"},
              "generated", TRUE, format_observations(observations))
    ELSE Dict({"response", "success", "observations"},
              FALLBACK_APOLOGY, FALSE, format_observations(observations))

fallback_context(observations) ==
  << [kind |-> "based_on_our_records", n |-> 0, text |-> << >>] >>
    \o [i \in 1..Len(Prefix(observations, MaxContextObservations)) |->
         observation_piece(observations[i])]

\* What one request computes from its query, the store and the knowledge
\* directory, whatever the outside calls then answer:
\*   observations    simple_rag.get_relevant_observations(query)
\*   found           the observation_results of llamaindex_rag.process_query
\*   context         the context simple_rag.process_query builds over dir
\*   seeded_context  the same over the default files (an empty dir is seeded
\*                   by initialize_index before the simple RAG reads it)
Lookups(req, dir, plants, animals) ==
  LET observations == get_relevant_observations(req.query, plants, animals)
      context == simple_context(req, dir, observations)
  IN  [observations |-> observations,
       found |-> observation_results(llamaindex_extract_key_terms(req.query),
                                     plants, animals, 1),
       context |-> context,
       seeded_context |-> IF dir = << >>
                            THEN simple_context(req, default_knowledge, observations)
                            ELSE context]

\* llamaindex_rag.process_query. env gives the outcome of each outside call:
\* init (initialize_index), engine_ok (query_engine.query), fallback_ok (the
\* LLM call of fallback_response), simple_ok (the LLM call of the simple RAG
\* it falls back to itself). The result: the dict returned or raised = TRUE,
\* the stages run, and the globals and files as the call leaves them.
llamaindex_process_query(req, env, look, available, index, dir, indexed_ids, plants, animals) ==
  LET init == initialize_index(env.init, available, index, dir, indexed_ids,
                               plants, animals)
      initialized == available /\ index = NoIndex
      after == IF initialized THEN init
               ELSE [ok |-> index # NoIndex, vector_index |-> index,
                     knowledge_dir |-> dir, ledger |-> indexed_ids]
      context == IF after.knowledge_dir = dir THEN look.context
                 ELSE look.seeded_context
      init_stage == IF initialized
                      THEN << Stage("llamaindex_rag.initialize_index", << >>,
                                    << >>, "not_called") >>
                      ELSE << >>
      out(raised, ret, more) ==
        [raised |-> raised, ret |-> ret, stages |-> init_stage \o more,
         vector_index |-> after.vector_index,
         knowledge_dir |-> after.knowledge_dir, ledger |-> after.ledger]
  IN  IF ~available \/ ~after.ok
        THEN \* lines 264-289: the module's own fall back to the simple RAG
             out(FALSE,
                 simple_process_query(req, look.observations, env.simple_ok),
                 << simple_stage(req, look.observations, context,
                                 env.simple_ok) >>)
      ELSE IF req.kind # "text"
        THEN \* extract_key_terms raises; the handler then reads
             \* observation_results, which is not yet bound, and raises
             out(TRUE, Dict({}, "", FALSE, << >>),
                 << Stage("llamaindex_rag.process_query raised", << >>, << >>,
                          "not_called") >>)
      ELSE IF env.engine_ok
        THEN out(FALSE,
                 Dict({"response", "success", "observations"}, "generated", TRUE,
                      format_observations(look.found)),
                 << Stage("llamaindex_rag.query", look.found, << >>, "ok") >>)
      ELSE out(FALSE,
               fallback_response(req.query, look.found, env.fallback_ok),
               << Stage("llamaindex_rag.query", look.found, << >>, "failed"),
                  Stage("llamaindex_rag.fallback_response", look.found,
                        fallback_context(look.found),
                        IF env.fallback_ok THEN "ok" ELSE "failed") >>)

(***************************************************************************)
(* routes/query_routes.py                                                  *)
(***************************************************************************)

ROUTE_APOLOGY ==
  "I'm sorry, I encountered an error processing your question. Please try again later."

\* What handle_query gives the web layer: the HTTP status and the JSON
\* body, or raised = TRUE for an exception that leaves the handler
Response(status, body) == [raised |-> FALSE, status |-> status, body |-> body]

Raised == [raised |-> TRUE, status |-> 0, body |-> Dict({}, "", FALSE, << >>)]

\* lines 33-40: the call of the LlamaIndex RAG inside try/except; an
\* exception is printed and the handler goes on
try_llamaindex(first) == first

\* lines 43-54: the simple RAG inside try/except. simple_rag.process_query
\* catches every exception itself, so the except branch is never taken.
try_simple(second) ==
  IF second.raised
    THEN [raised |-> FALSE, status |-> 500,
          body |-> Dict({"error", "success", "response"}, ROUTE_APOLOGY, FALSE,
                        << >>)]
    ELSE Response(200, second.ret)

\* handle_query: the whole request. env as for llamaindex_process_query, with
\* route_simple_ok the outcome of the LLM call of the route's own simple RAG.
handle_query_run(req, env, look, route_ok, available, index, dir, indexed_ids, plants, animals) ==
  LET first == try_llamaindex(
                 llamaindex_process_query(req, env, look, available, index, dir,
                                          indexed_ids, plants, animals))
      kdir == IF route_ok THEN first.knowledge_dir ELSE dir
      context == IF kdir = dir THEN look.context ELSE look.seeded_context
      second == [raised |-> FALSE,
                 ret |-> simple_process_query(req, look.observations,
                                              env.route_simple_ok)]
      second_stage == simple_stage(req, look.observations, context,
                                   env.route_simple_ok)
      globals == [vector_index |-> IF route_ok THEN first.vector_index ELSE index,
                  knowledge_dir |-> kdir,
                  ledger |-> IF route_ok THEN first.ledger ELSE indexed_ids]
  IN  IF req.kind = "missing"
        THEN [response |-> Response(400, Dict({"error"}, "", FALSE, << >>)),
              stages |-> << >>,
              globals |-> [vector_index |-> index, knowledge_dir |-> dir,
                           ledger |-> indexed_ids]]
      ELSE IF route_ok /\ ~first.raised /\ first.ret.success
        THEN [response |-> Response(200, first.ret), stages |-> first.stages,
              globals |-> globals]
      ELSE [response |-> try_simple(second),
            stages |-> (IF route_ok THEN first.stages ELSE << >>)
                         \o << second_stage >>,
            globals |-> globals]

(***************************************************************************)
(* The query service: the module import, then a request                    *)
(***************************************************************************)

\* coordinates is what json.loads gives for the stored text: a list
\* [longitude, latitude] as the EXIF data give it, or, sent as a form field,
\* any JSON value; coordinates_kind tells a list from an object (a dict,
\* whose values coordinates then holds)
Observation(id, species_name, location, category, coordinates) ==
  [id |-> id, species_name |-> species_name, location |-> location,
   category |-> category, coordinates |-> coordinates,
   coordinates_kind |-> "list"]

\* The observations the store is filled from. The third is a plant by its
\* category (set by the identification result or by the form) whose name
\* holds none of the PLANT_KEYWORDS.
Samples ==
  << Observation(1, Sp_griffon, Loc_margalla, "animal", << 73, 33 >>),
     Observation(2, Sp_chir_pine, Loc_rawal, "plant", << 73, 33 >>),
     Observation(3, Sp_rose, Loc_rawal, "plant", << 73, 33 >>),
     Observation(4, Sp_mallard, Loc_rawal, "animal", << >>) >>

\* The rows of the two files after saving rows one after the other
RECURSIVE SavedPlants(_, _)
SavedPlants(rows, k) ==
  IF k = 0 THEN << >>
  ELSE save_observation_plants(SavedPlants(rows, k - 1), rows[k])

RECURSIVE SavedAnimals(_, _)
SavedAnimals(rows, k) ==
  IF k = 0 THEN << >>
  ELSE save_observation_animals(SavedAnimals(rows, k - 1), rows[k])

\* The largest number of samples a store of the model is filled with
MaxObservations == 3

\* One sighting more of the same species than get_relevant_observations
\* returns, after a sighting at the lake
Sightings ==
  << Observation(10, Sp_mallard, Loc_rawal, "animal", << 73, 33 >>) >>
    \o [i \in 1..(MaxSelected + 1) |->
         Observation(10 + i, Sp_griffon, Loc_margalla, "animal", << 73, 33 >>)]

\* The stores of the model: the first n samples, n up to MaxObservations,
\* the samples without the first, and the sightings
StoreChoices ==
  { Prefix(Samples, n) : n \in 0..MaxObservations }
    \cup { Tail(Samples), Sightings }

KnowledgeFile(filename, content) == [filename |-> filename, content |-> content]

\* The knowledge directories of the model; the last holds two files twice
\* over (copies under other names), one of them longer than PreviewChars
DirChoices ==
  { << >>,
    << KnowledgeFile(Fn_notes, Kc_misc) >>,
    << KnowledgeFile(Fn_plants, Kc_plants), KnowledgeFile(Fn_k1, Kc_birds),
       KnowledgeFile(Fn_notes, Kc_misc) >>,
    << KnowledgeFile(Fn_k1, Kc_birds), KnowledgeFile(Fn_k2, Kc_long),
       KnowledgeFile(Fn_k3, Kc_birds), KnowledgeFile(Fn_k4, Kc_long) >> }

Queries ==
  { Q_birds_rawal, Q_xyzzy, Q_griffon, Q_pine_trees, Q_birds_plants, Q_empty,
    Q_griffon_rawal, Q_griffon_birds }

\* The body of a request: a text query, a 'query' that is no string, or a
\* body without 'query'
Requests ==
  { [kind |-> "text", query |-> q] : q \in Queries }
    \cup { [kind |-> "not_text", query |-> << >>],
           [kind |-> "missing", query |-> << >>] }

NoRequest == [kind |-> "none", query |-> << >>]

NoResult == [raised |-> FALSE, status |-> 0, body |-> Dict({}, "", FALSE, << >>)]

InitOutcomes == { "ok", "fail_config", "fail_embed" }

Envs ==
  [init : InitOutcomes, engine_ok : BOOLEAN, fallback_ok : BOOLEAN,
   simple_ok : BOOLEAN, route_simple_ok : BOOLEAN]

DaemonIdle ==
  /\ needs_update = FALSE
  /\ last_update_time = 0
  /\ now = 0
  /\ update_lock = "free"
  /\ pc = << >>
  /\ locals = << >>
  /\ notified = {}
  /\ timestamp = 0

Init ==
  /\ \E rows \in StoreChoices :
       /\ plants_csv = SavedPlants(rows, Len(rows))
       /\ animals_csv = SavedAnimals(rows, Len(rows))
       /\ ledger \in { << >>, Ids(rows) }
       /\ ledger_file = "list"
  /\ knowledge_dir \in DirChoices
  /\ vector_index = NoIndex
  /\ \E flags \in { << TRUE, TRUE >>, << TRUE, FALSE >>, << FALSE, FALSE >> } :
       /\ route_available = flags[1]
       /\ llamaindex_available = flags[2]
  /\ request = NoRequest
  /\ stages = << >>
  /\ result = NoResult
  /\ phase = "import"
  /\ DaemonIdle

\* The import of services.llamaindex_rag by query_routes: its last line
\* calls initialize_index()
import_llamaindex_rag ==
  /\ phase = "import"
  /\ \E outcome \in InitOutcomes :
       LET init == initialize_index(outcome, llamaindex_available, vector_index,
                                    knowledge_dir, ledger, plants_csv, animals_csv)
       IN  IF route_available
             THEN /\ vector_index' = init.vector_index
                  /\ knowledge_dir' = init.knowledge_dir
                  /\ ledger' = init.ledger
             ELSE UNCHANGED << vector_index, knowledge_dir, ledger >>
  /\ phase' = "serving"
  /\ UNCHANGED << plants_csv, animals_csv, route_available,
                  llamaindex_available, request, stages, result, needs_update,
                  last_update_time, now, update_lock, pc, locals, notified,
                  ledger_file, timestamp >>

\* The runs of handle_query on one request, one for each way the outside
\* calls can answer
handle_query_runs(req) ==
  LET look == Lookups(req, knowledge_dir, plants_csv, animals_csv)
  IN  { handle_query_run(req, env, look, route_available, llamaindex_available,
                         vector_index, knowledge_dir, ledger, plants_csv,
                         animals_csv) : env \in Envs }

\* POST /api/queries
handle_query ==
  /\ phase = "serving"
  /\ \E req \in Requests :
       \E run \in handle_query_runs(req) :
         /\ request' = req
         /\ result' = run.response
         /\ stages' = run.stages
         /\ vector_index' = run.globals.vector_index
         /\ knowledge_dir' = run.globals.knowledge_dir
         /\ ledger' = run.globals.ledger
  /\ phase' = "answered"
  /\ UNCHANGED << plants_csv, animals_csv, route_available,
                  llamaindex_available, needs_update, last_update_time,
                  now, update_lock, pc, locals, notified, ledger_file,
                  timestamp >>

Next == import_llamaindex_rag \/ handle_query

Spec == Init /\ [][Next]_vars


(***************************************************************************)
(* services/rag_updater.py: the index sync daemon, step by step            *)
(*                                                                         *)
(* Four threads share the module's globals, the ledger file and the vector *)
(* index: "handler" serves POST /api/observations, "timer" is the          *)
(* background thread of start_update_thread, "caller" calls the module's   *)
(* functions signal_update_needed() and update_rag_index() directly, and   *)
(* "index" runs the functions of llamaindex_rag that write the ledger.     *)
(* pc[t] is the statement thread t is at, locals[t] its local variables.   *)
(* notified records each notification a handler delivered: the id of the   *)
(* observation, whether the cooldown deferred the update, and whether no   *)
(* update was pending when it arrived.                                     *)
(***************************************************************************)

Threads == { "handler", "timer", "caller", "index" }

\* The threads that serve POST /api/observations
Handlers == { "handler", "handler2" }

\* line 28
UPDATE_COOLDOWN == 60

\* line 254: the seconds the timer thread sleeps between two checks
SLEEP_SECONDS == 30

\* The largest number of requests and calls that arrive, all threads
\* together
MaxCalls == 3

\* ret: where update_rag_index returns to ("": not in it); after: where
\* signal_update_needed or initialize_index returns to; proc: the procedure writing the ledger;
\* todo: the ids still to log; documents: the ids of the documents created;
\* indexed_ids: the ledger as log_indexed_observation read it; calls: the
\* requests and calls begun so far; history: the ids of all_observations at each run
\* of the sync body; observation: the row a handler is saving (none: << >>);
\* observations: the rows of the file save_observation read
NoLocals ==
  [ret |-> "", after |-> "", proc |-> "", todo |-> << >>,
   documents |-> << >>, indexed_ids |-> << >>, calls |-> 0,
   history |-> << >>, observation |-> << >>, observations |-> << >>]

\* The locals of a thread whose procedure has returned
Returned(rec) ==
  [NoLocals EXCEPT !.calls = rec.calls, !.history = rec.history, !.ret = rec.ret]

TotalCalls ==
  locals["handler"].calls + locals["caller"].calls + locals["index"].calls

\* The stores the daemon starts over
DaemonStores == { Prefix(Samples, n) : n \in 0..1 }

\* The rows a handler saves
NewSamples == { Samples[3] }

\* The application once its modules are imported, over the store rows;
\* file: the ledger file as it is when the first request arrives ("list": as
\* the import left it; "missing", "unparseable": deleted or damaged since)
DaemonBoot(rows, file) ==
  /\ plants_csv = SavedPlants(rows, Len(rows))
  /\ animals_csv = SavedAnimals(rows, Len(rows))
  /\ knowledge_dir = << KnowledgeFile(Fn_notes, Kc_misc) >>
  /\ llamaindex_available \in BOOLEAN
  /\ route_available = TRUE
  /\ \E outcome \in InitOutcomes :
       LET init == initialize_index(outcome, llamaindex_available, NoIndex,
                                    knowledge_dir, << >>, plants_csv, animals_csv)
       IN  /\ vector_index = init.vector_index
           /\ ledger = IF file = "missing" THEN << >> ELSE init.ledger
  /\ ledger_file = file
  /\ timestamp = 0
  /\ request = NoRequest
  /\ stages = << >>
  /\ result = NoResult
  /\ phase = "daemon"
  /\ needs_update = FALSE
  /\ last_update_time = 0
  /\ now = 0
  /\ update_lock = "free"
  /\ pc = [t \in Threads |-> IF t = "timer" THEN "update_thread_func" ELSE "idle"]
  /\ locals = [t \in Threads |-> NoLocals]
  /\ notified = {}

DaemonInit == \E rows \in DaemonStores : DaemonBoot(rows, "list")

Fixed == << route_available, llamaindex_available, request, stages, result,
           phase, timestamp >>

Ledger == << ledger, ledger_file >>

Store == << plants_csv, animals_csv >>

Flags == << needs_update, last_update_time >>

Goto(t, label) == pc' = [pc EXCEPT ![t] = label]

\* line 84 and line 252
cooldown_passed == now - last_update_time > UPDATE_COOLDOWN

\* Faulty variant of lock_is_free: a held lock does not make a thread wait
lock_is_ignored(t) == TRUE

\* threading.Lock: "with update_lock" is entered when the lock is free. The
\* lock is not reentrant, a thread that holds it waits like any other.
lock_is_free(t) == update_lock = "free"

\* SLEEP_SECONDS pass: time.time() moves on and the timer thread's sleep
\* returns. The clock is followed until the cooldown has passed: no later
\* reading is told apart by the code.
Tick ==
  /\ ~cooldown_passed \/ pc["timer"] = "timer_sleep"
  /\ now' = IF cooldown_passed THEN now ELSE now + SLEEP_SECONDS
  /\ pc' = IF pc["timer"] = "timer_sleep"
             THEN [pc EXCEPT !["timer"] = "update_thread_func"]
             ELSE pc
  /\ UNCHANGED << Store, knowledge_dir, Ledger, vector_index, Fixed, Flags,
                  update_lock, locals, notified >>

\* create_observation: the row is saved (Observation.save), read back
\* (find_by_id) and process_new_observation is called with it; one thread
\* serves the requests one after the other, each at a later millisecond,
\* so the ids differ (StoreSpec has the steps of two threads)
create_observation(t) ==
  /\ t = "handler" /\ pc[t] = "idle" /\ TotalCalls < MaxCalls
  /\ \E sample \in NewSamples :
       LET row == [sample EXCEPT !.id = Len(plants_csv) + Len(animals_csv) + 1]
       IN  /\ plants_csv' = save_observation_plants(plants_csv, row)
           /\ animals_csv' = save_observation_animals(animals_csv, row)
           /\ locals' = [locals EXCEPT ![t].calls = @ + 1, ![t].after = "idle",
                                       ![t].todo = << row.id >>]
  /\ Goto(t, "signal_update_needed")
  /\ UNCHANGED << knowledge_dir, Ledger, vector_index, Fixed, Flags, now,
                  update_lock, notified >>

\* signal_update_needed() and then update_rag_index(), called one after
\* the other from outside the application's routes
call_signal_then_update(t) ==
  /\ t = "caller" /\ pc[t] = "idle" /\ TotalCalls < MaxCalls
  /\ locals' = [locals EXCEPT ![t].calls = @ + 1,
                              ![t].after = "call_update_rag_index"]
  /\ Goto(t, "signal_update_needed")
  /\ UNCHANGED << Store, knowledge_dir, Ledger, vector_index, Fixed, Flags,
                  now, update_lock, notified >>

\* signal_update_needed, lines 79-88: the lock is taken and the flag set;
\* within the cooldown the lock is released and the call returns, after it
\* update_rag_index is called with the lock held (ret: the statement the
\* call would return to, the end of the "with" block)
signal_update_needed(t) ==
  /\ pc[t] = "signal_update_needed"
  /\ lock_is_free(t)
  /\ needs_update' = TRUE
  /\ IF cooldown_passed
       THEN /\ update_lock' = t
            /\ Goto(t, "update_rag_index")
            /\ locals' = [locals EXCEPT ![t].ret = "signal_release"]
       ELSE /\ update_lock' = "free"
            /\ Goto(t, locals[t].after)
            /\ locals' = [locals EXCEPT ![t] = Returned(@)]
  /\ notified' =
       IF t \in Handlers
         THEN notified \cup { [id |-> locals[t].todo[1],
                               deferred |-> ~cooldown_passed,
                               idle |-> ~needs_update] }
         ELSE notified
  /\ UNCHANGED << Store, knowledge_dir, Ledger, vector_index, Fixed,
                  last_update_time, now >>

\* update_rag_index() called from outside the module, on its own or once
\* signal_update_needed() has returned
call_update_rag_index(t) ==
  /\ t = "caller"
  /\ \/ /\ pc[t] = "idle" /\ TotalCalls < MaxCalls
        /\ locals' = [locals EXCEPT ![t].calls = @ + 1, ![t].ret = "idle"]
     \/ /\ pc[t] = "call_update_rag_index"
        /\ locals' = [locals EXCEPT ![t].ret = "idle"]
  /\ Goto(t, "update_rag_index")
  /\ UNCHANGED << Store, knowledge_dir, Ledger, vector_index, Fixed, Flags,
                  now, update_lock, notified >>

\* update_rag_index, lines 94-107: the lock is taken; with no update
\* pending it is released and the call returns, else the flags are reset
\* and the sync begins
update_rag_index(t) ==
  /\ pc[t] = "update_rag_index"
  /\ lock_is_free(t)
  /\ IF ~needs_update
       THEN /\ update_lock' = "free"
            /\ Goto(t, locals[t].ret)
            /\ locals' = [locals EXCEPT ![t].ret = ""]
            /\ UNCHANGED Flags
       ELSE /\ update_lock' = t
            /\ needs_update' = FALSE
            /\ last_update_time' = now
            /\ Goto(t, "sync_read")
            /\ UNCHANGED locals
  /\ UNCHANGED << Store, knowledge_dir, Ledger, vector_index, Fixed, now,
                  notified >>

\* update_rag_index, line 109: leaving "with update_lock", and the return
update_release(t) ==
  /\ pc[t] = "update_release"
  /\ update_lock' = "free"
  /\ Goto(t, locals[t].ret)
  /\ locals' = [locals EXCEPT ![t] = [Returned(@) EXCEPT !.ret = ""]]
  /\ UNCHANGED << Store, knowledge_dir, Ledger, vector_index, Fixed, Flags,
                  now, notified >>

\* Faulty variant of new_observations: the ledger is not consulted
new_observations_unfiltered(all_observations, indexed_ids) == all_observations

\* _update_llamaindex, line 177, and _update_simple_rag, line 222
new_observations(all_observations, indexed_ids) ==
  SelectSeq(all_observations, LAMBDA obs : ~InList(obs.id, indexed_ids))

\* Faulty variant of get_indexed_observations: what is left of the list is
\* returned whatever the state of the file
get_indexed_observations_unguarded(file, list) == list

\* get_indexed_observations, lines 43-55: [] for a file that is missing or
\* does not parse
get_indexed_observations(file, list) ==
  IF file = "list" THEN list ELSE << >>

\* init_observation_log, lines 34-41, called by get_indexed_observations
\* and at the import: a missing file is created with an empty list
init_observation_log(file) == IF file = "missing" THEN "list" ELSE file

\* observation_to_document, lines 111-157, on a row of the store: the
\* Document, or the exception raised at line 132 or 133 (coordinates that
\* are a non-empty dict have no key 0 or 1)
observation_to_document(observation) ==
  IF observation.coordinates # << >> /\ observation.coordinates_kind = "dict"
    THEN "KeyError"
    ELSE "Document"

\* _update_llamaindex, lines 186-191: the observations the loop gets through
\* before observation_to_document raises
converted(new) ==
  LET raising == { k \in 1..Len(new) :
                    observation_to_document(new[k]) = "KeyError" }
  IN  IF raising = {} THEN new
      ELSE SubSeq(new, 1, (CHOOSE k \in raising :
                             \A j \in raising : k <= j) - 1)

\* _update_llamaindex, lines 165-191, and _update_simple_rag, lines 211-228:
\* the store and the ledger are read, the new observations are kept; the
\* former converts them to documents, which may raise
sync_read(t) ==
  /\ pc[t] = "sync_read"
  /\ LET all_observations == find_all_observations(plants_csv, animals_csv)
         indexed_ids == get_indexed_observations(ledger_file, ledger)
         new == new_observations(all_observations, indexed_ids)
         done == IF llamaindex_available THEN converted(new) ELSE new
     IN  /\ locals' = [locals EXCEPT
                         ![t].history = Append(@, Ids(all_observations)),
                         ![t].todo = Ids(done),
                         ![t].documents = Ids(done),
                         ![t].proc = IF ~llamaindex_available
                                       THEN "_update_simple_rag"
                                     ELSE IF Len(done) < Len(new)
                                       THEN "_update_llamaindex raised"
                                     ELSE "_update_llamaindex"]
         /\ Goto(t, IF done = << >> THEN "update_release" ELSE "log_read")
  /\ ledger_file' = init_observation_log(ledger_file)
  /\ UNCHANGED << Store, knowledge_dir, ledger, vector_index, Fixed, Flags,
                  now, update_lock, notified >>

\* Faulty variant of after_log: _update_simple_rag goes on to the index
\* as _update_llamaindex does
after_log_then_index(rec) ==
  IF Len(rec.todo) > 1 THEN "log_read"
  ELSE IF rec.proc \in { "_update_llamaindex", "_update_simple_rag" }
    THEN "sync_index"
  ELSE IF rec.proc = "_update_llamaindex raised" THEN "update_release"
  ELSE IF rec.proc = "initialize_index" THEN "init_build"
  ELSE rec.after

\* Where a procedure goes on once the id at the head of todo is dealt with
after_log(rec) ==
  IF Len(rec.todo) > 1 THEN "log_read"
  ELSE IF rec.proc = "_update_llamaindex" THEN "sync_index"
  ELSE IF rec.proc = "_update_simple_rag" THEN "update_release"
  ELSE IF rec.proc = "_update_llamaindex raised" THEN "update_release"
  ELSE IF rec.proc = "initialize_index" THEN "init_build"
  ELSE rec.after

\* The locals once the id at the head of todo is dealt with
logged(rec) ==
  IF Len(rec.todo) = 1 /\ rec.proc = "update_index_with_observation"
    THEN Returned(rec)
    ELSE [rec EXCEPT !.todo = Tail(@), !.indexed_ids = << >>]

\* log_indexed_observation, lines 59-62: the ledger file is read
log_read(t) ==
  /\ pc[t] = "log_read"
  /\ LET indexed_ids == get_indexed_observations(ledger_file, ledger)
     IN  IF InList(locals[t].todo[1], indexed_ids)
           THEN /\ Goto(t, after_log(locals[t]))
                /\ locals' = [locals EXCEPT ![t] = logged(@)]
           ELSE /\ Goto(t, "log_write")
                /\ locals' = [locals EXCEPT ![t].indexed_ids = indexed_ids]
  /\ ledger_file' = init_observation_log(ledger_file)
  /\ UNCHANGED << Store, knowledge_dir, ledger, vector_index, Fixed, Flags,
                  now, update_lock, notified >>

\* log_indexed_observation, lines 64-71: the ledger file is written over
\* with the list read before and the id
log_write(t) ==
  /\ pc[t] = "log_write"
  /\ ledger' = Append(locals[t].indexed_ids, locals[t].todo[1])
  /\ ledger_file' = "list"
  /\ Goto(t, after_log(locals[t]))
  /\ locals' = [locals EXCEPT ![t] = logged(@)]
  /\ UNCHANGED << Store, knowledge_dir, vector_index, Fixed, Flags, now,
                  update_lock, notified >>

\* _update_llamaindex, lines 193-207: without an index initialize_index is
\* called; else the documents are inserted, or the insertion raises and the
\* exception is printed
sync_index(t) ==
  /\ pc[t] = "sync_index"
  /\ IF vector_index = NoIndex
       THEN /\ Goto(t, "init_start")
            /\ locals' = [locals EXCEPT ![t].after = "update_release"]
            /\ UNCHANGED vector_index
       ELSE /\ Goto(t, "update_release")
            /\ UNCHANGED locals
            /\ \E inserted \in BOOLEAN :
                 vector_index' =
                   IF inserted
                     THEN [vector_index EXCEPT
                             !.observations = @ \o locals[t].documents]
                     ELSE vector_index
  /\ UNCHANGED << Store, knowledge_dir, Ledger, Fixed, Flags, now,
                  update_lock, notified >>

\* initialize_index, lines 59-77, and create_documents_from_observations,
\* lines 159-174: the settings are made (or raise), the knowledge directory
\* is seeded, the ledger and the store are read
init_start(t) ==
  /\ pc[t] = "init_start"
  /\ \E configured \in BOOLEAN :
       IF ~configured
         THEN /\ Goto(t, locals[t].after)
              /\ locals' = [locals EXCEPT ![t] = Returned(@)]
              /\ UNCHANGED << knowledge_dir, ledger_file >>
         ELSE LET documents ==
                    create_documents_from_observations(
                      get_indexed_observations(ledger_file, ledger),
                      plants_csv, animals_csv)
              IN  /\ ledger_file' = init_observation_log(ledger_file)
                  /\ knowledge_dir' = IF knowledge_dir = << >>
                                        THEN default_knowledge
                                        ELSE knowledge_dir
                  /\ locals' = [locals EXCEPT ![t].todo = documents,
                                              ![t].documents = documents,
                                              ![t].proc = "initialize_index"]
                  /\ Goto(t, IF documents = << >> THEN "init_build"
                             ELSE "log_read")
  /\ UNCHANGED << Store, ledger, vector_index, Fixed, Flags, now,
                  update_lock, notified >>

\* initialize_index, lines 81-93: the index is built from the documents, or
\* VectorStoreIndex.from_documents raises
init_build(t) ==
  /\ pc[t] = "init_build"
  /\ \E built \in BOOLEAN :
       vector_index' =
         IF built
           THEN [built |-> TRUE,
                 knowledge |-> [i \in 1..Len(knowledge_dir) |->
                                  knowledge_dir[i].filename],
                 observations |-> locals[t].documents]
           ELSE vector_index
  /\ Goto(t, locals[t].after)
  /\ locals' = [locals EXCEPT ![t] = Returned(@)]
  /\ UNCHANGED << Store, knowledge_dir, Ledger, Fixed, Flags, now,
                  update_lock, notified >>

\* update_thread_func, lines 251-254: the lock is taken; with an update
\* pending and the cooldown passed update_rag_index is called with the lock
\* held, else the lock is released and the thread sleeps
update_thread_func(t) ==
  /\ t = "timer" /\ pc[t] = "update_thread_func"
  /\ lock_is_free(t)
  /\ IF needs_update /\ cooldown_passed
       THEN /\ update_lock' = t
            /\ Goto(t, "update_rag_index")
            /\ locals' = [locals EXCEPT ![t].ret = "timer_release"]
       ELSE /\ update_lock' = "free"
            /\ Goto(t, "timer_sleep")
            /\ UNCHANGED locals
  /\ UNCHANGED << Store, knowledge_dir, Ledger, vector_index, Fixed, Flags,
                  now, notified >>

\* llamaindex_rag.process_query, lines 277-278: a query finds no index and
\* calls initialize_index
query_initialize_index(t) ==
  /\ t = "index" /\ pc[t] = "idle" /\ TotalCalls < MaxCalls
  /\ llamaindex_available /\ vector_index = NoIndex
  /\ locals' = [locals EXCEPT ![t].calls = @ + 1, ![t].after = "idle"]
  /\ Goto(t, "init_start")
  /\ UNCHANGED << Store, knowledge_dir, Ledger, vector_index, Fixed, Flags,
                  now, update_lock, notified >>

\* llamaindex_rag.update_index_with_observation(observation), called with
\* an observation of the store: without an index initialize_index is
\* called; else the document is inserted and its id logged, or the
\* insertion raises
update_index_with_observation(t) ==
  /\ t = "index" /\ pc[t] = "idle" /\ TotalCalls < MaxCalls
  /\ llamaindex_available
  /\ IF vector_index = NoIndex
       THEN /\ locals' = [locals EXCEPT ![t].calls = @ + 1, ![t].after = "idle"]
            /\ Goto(t, "init_start")
            /\ UNCHANGED vector_index
       ELSE \E id \in { Ids(find_all_observations(plants_csv, animals_csv))[i] :
                          i \in 1..(Len(plants_csv) + Len(animals_csv)) } :
              \E inserted \in BOOLEAN :
                IF inserted
                  THEN /\ vector_index' = [vector_index EXCEPT
                                             !.observations = Append(@, id)]
                       /\ locals' = [locals EXCEPT
                                       ![t].calls = @ + 1, ![t].after = "idle",
                                       ![t].todo = << id >>,
                                       ![t].proc = "update_index_with_observation"]
                       /\ Goto(t, "log_read")
                  ELSE /\ locals' = [locals EXCEPT ![t].calls = @ + 1]
                       /\ UNCHANGED << vector_index, pc >>
  /\ UNCHANGED << Store, knowledge_dir, Ledger, Fixed, Flags, now,
                  update_lock, notified >>

\* The steps that go on with something begun
Continue(t) ==
  \/ signal_update_needed(t) \/ update_rag_index(t) \/ update_release(t)
  \/ sync_read(t) \/ log_read(t) \/ log_write(t) \/ sync_index(t)
  \/ init_start(t) \/ init_build(t)
  \/ update_thread_func(t)

\* The steps that begin a request or a call
Begin(t) ==
  \/ create_observation(t)
  \/ call_signal_then_update(t) \/ call_update_rag_index(t)
  \/ query_initialize_index(t) \/ update_index_with_observation(t)

DaemonNext == Tick \/ \E t \in Threads : Begin(t) \/ Continue(t)

DaemonSpec == DaemonInit /\ [][DaemonNext]_vars

\* The daemon over an empty store, llama_index installed, no index built at
\* the import
FairDaemonInit ==
  /\ DaemonInit
  /\ plants_csv = << >> /\ animals_csv = << >>
  /\ llamaindex_available
  /\ vector_index = NoIndex

\* The scheduler runs every thread that can take a step, and time passes;
\* nothing makes a request or a call arrive
FairDaemonSpec ==
  /\ FairDaemonInit /\ [][DaemonNext]_vars
  /\ WF_vars(Tick)
  /\ \A t \in Threads : WF_vars(Continue(t))

\* The stores of the recovery runs: two observations, and the same two with
\* the coordinates of the second sent as a JSON object
RecoveryStores ==
  { Prefix(Samples, 2),
    << Samples[1], [Samples[2] EXCEPT !.coordinates_kind = "dict"] >> }

\* The daemon when the ledger file was deleted or damaged after the import
RecoveryInit ==
  \E rows \in RecoveryStores :
    \E file \in { "missing", "unparseable" } : DaemonBoot(rows, file)

\* The recovery runs: observations are saved and the module's functions are
\* called as before, while no query and no other caller runs the functions
\* of llamaindex_rag that write the ledger outside the lock
RecoveryNext ==
  \/ Tick
  \/ \E t \in Threads \ { "index" } :
       \/ create_observation(t)
       \/ call_signal_then_update(t) \/ call_update_rag_index(t)
       \/ Continue(t)

RecoverySpec == RecoveryInit /\ [][RecoveryNext]_vars

(***************************************************************************)
(* routes/observation_routes.py and csv_service.save_observation, step by  *)
(* step: two threads serve POST /api/observations over the same two files  *)
(***************************************************************************)

\* The largest number of requests one thread serves
MaxUploads == 2

\* The clock readings told apart within one millisecond
ClockResolution == 2

\* The last reading of the clock
MaxTimestamp == 3

\* generate_id, line 73: the millisecond of the clock reading (the id is
\* its decimal string; 0 stands for None, no id)
generate_id(reading) == reading \div ClockResolution

\* Faulty variant of find_observation_by_id: the row is not looked up
find_observation_by_id_unchecked(observation_id, plants, animals) ==
  << [id |-> observation_id] >>

\* find_observation_by_id, lines 188-219: the first row with the id, the
\* plants file first; << >> stands for None
find_observation_by_id(observation_id, plants, animals) ==
  LET found == SelectSeq(plants \o animals, LAMBDA obs : obs.id = observation_id)
  IN  IF observation_id = 0 \/ found = << >> THEN << >> ELSE << found[1] >>

\* The observations posted (the id is given by the store)
Uploads == { Samples[1], Samples[2] }

StoreInit ==
  /\ plants_csv = << >> /\ animals_csv = << >>
  /\ knowledge_dir = << KnowledgeFile(Fn_notes, Kc_misc) >>
  /\ llamaindex_available = FALSE
  /\ route_available = TRUE
  /\ vector_index = NoIndex
  /\ ledger = << >>
  /\ ledger_file = "list"
  /\ request = NoRequest
  /\ stages = << >>
  /\ result = NoResult
  /\ phase = "daemon"
  /\ needs_update = FALSE
  /\ last_update_time = 0
  /\ now = 0
  /\ update_lock = "free"
  /\ pc = [t \in Handlers |-> "idle"]
  /\ locals = [t \in Handlers |-> NoLocals]
  /\ notified = {}
  /\ timestamp = ClockResolution

\* Time passes: datetime.now() gives the next reading
clock_advances ==
  /\ timestamp < MaxTimestamp
  /\ timestamp' = timestamp + 1
  /\ UNCHANGED << Store, knowledge_dir, Ledger, vector_index, route_available,
                  llamaindex_available, request, stages, result, phase, Flags,
                  now, update_lock, pc, locals, notified >>

\* create_observation, lines 185-201, and save_observation, line 156: the
\* Observation is built from the request and save() calls generate_id()
post_observation(t) ==
  /\ pc[t] = "idle" /\ locals[t].calls < MaxUploads
  /\ \E sample \in Uploads :
       locals' = [locals EXCEPT
                    ![t].calls = @ + 1,
                    ![t].observation =
                      << [sample EXCEPT !.id = generate_id(timestamp)] >>]
  /\ Goto(t, "save_read")
  /\ UNCHANGED << Store, knowledge_dir, Ledger, vector_index, Fixed, Flags,
                  now, update_lock, notified >>

\* save_observation, lines 166-172: the file the species name selects is
\* read
save_read(t) ==
  /\ pc[t] = "save_read"
  /\ locals' = [locals EXCEPT
                  ![t].observations =
                    IF is_plant_species(locals[t].observation[1].species_name)
                      THEN plants_csv ELSE animals_csv]
  /\ Goto(t, "save_write")
  /\ UNCHANGED << Store, knowledge_dir, Ledger, vector_index, Fixed, Flags,
                  now, update_lock, notified >>

\* save_observation, lines 175-186: the rows read and the new row are
\* written over the file and the id is returned, or the file cannot be
\* opened for writing and None is returned
save_write(t) ==
  /\ pc[t] = "save_write"
  /\ LET row == locals[t].observation[1]
         plant == is_plant_species(row.species_name)
     IN  \E written \in BOOLEAN :
           IF written
             THEN /\ plants_csv' =
                       IF plant
                         THEN save_observation_plants(locals[t].observations, row)
                         ELSE plants_csv
                  /\ animals_csv' =
                       IF plant
                         THEN animals_csv
                         ELSE save_observation_animals(locals[t].observations, row)
                  /\ locals' = [locals EXCEPT ![t].observations = << >>]
             ELSE /\ UNCHANGED Store
                  /\ locals' = [locals EXCEPT
                                  ![t].observations = << >>,
                                  ![t].observation = << [row EXCEPT !.id = 0] >>]
  /\ Goto(t, "find_by_id")
  /\ UNCHANGED << knowledge_dir, Ledger, vector_index, Fixed, Flags, now,
                  update_lock, notified >>

\* create_observation, lines 204-209: the observation is read back by the
\* id save() returned and, when found (the updater is imported),
\* process_new_observation is called with it; the response is 201 in either case
find_by_id(t) ==
  /\ pc[t] = "find_by_id"
  /\ LET observation_id == locals[t].observation[1].id
         saved_observation ==
           find_observation_by_id(observation_id, plants_csv, animals_csv)
     IN  IF saved_observation # << >>
           THEN /\ locals' = [locals EXCEPT
                                ![t].todo = << saved_observation[1].id >>,
                                ![t].after = "idle"]
                /\ Goto(t, "signal_update_needed")
           ELSE /\ locals' = [locals EXCEPT ![t] = Returned(@)]
                /\ Goto(t, "idle")
  /\ UNCHANGED << Store, knowledge_dir, Ledger, vector_index, Fixed, Flags,
                  now, update_lock, notified >>

StoreNext ==
  \/ clock_advances
  \/ \E t \in Handlers :
       \/ post_observation(t) \/ save_read(t) \/ save_write(t)
       \/ find_by_id(t) \/ signal_update_needed(t)

StoreSpec == StoreInit /\ [][StoreNext]_vars

(***************************************************************************)
(* Properties of the query service (specification Spec)                    *)
(***************************************************************************)

Answered == phase = "answered" /\ request.kind \in { "text", "not_text" }

LastStage == stages[Len(stages)]

SimpleRan(i) == stages[i].name = "simple_rag.process_query"

\* The request's vector stage answered: the query engine returned
VectorAnswered ==
  \E i \in 1..Len(stages) :
    stages[i].name = "llamaindex_rag.query" /\ stages[i].llm = "ok"

\* C1: handle_query never raises and returns a result with a response, a
\* success flag and an observation list; when the vector stage did not
\* answer and the simple RAG stage failed too, the result is the fixed
\* apology with success = false and an empty observation list.
C1_NeverRaisesWellFormed ==
  Answered =>
    /\ ~result.raised
    /\ { "response", "success", "observations" } \subseteq result.body.keys
    /\ (SimpleRan(Len(stages)) /\ LastStage.llm # "ok") =>
         /\ result.body.response = SIMPLE_APOLOGY
         /\ ~result.body.success
         /\ result.body.observations = << >>

\* C1 witness: the engine query, fallback_response and the simple RAG's LLM
\* call all failed on a query that selects observations with coordinates
C1_Witness ==
  /\ Answered
  /\ Len(stages) = 3
  /\ stages[1].name = "llamaindex_rag.query" /\ stages[1].llm = "failed"
  /\ stages[2].name = "llamaindex_rag.fallback_response"
  /\ stages[2].llm = "failed"
  /\ SimpleRan(3) /\ stages[3].llm = "failed"
  /\ format_observations(stages[3].observations) # << >>
  /\ result.body.response = SIMPLE_APOLOGY

\* The vector engine is absent (the import failed, or llama_index is not
\* installed) or unconfigured (the index was never built, at import or in
\* this request)
EngineAbsent ==
  ~route_available \/ ~llamaindex_available \/ vector_index = NoIndex

\* C2: with the vector engine absent or unconfigured, handle_query returns
\* without raising and success is true exactly when the LLM call of the
\* simple RAG run that produced the result succeeded; no other LLM call is
\* made.
C2_FallbackCompleteness ==
  (Answered /\ EngineAbsent) =>
    /\ ~result.raised
    /\ SimpleRan(Len(stages))
    /\ result.body.success = (LastStage.llm = "ok")
    /\ \A i \in 1..Len(stages) : stages[i].llm # "not_called" => SimpleRan(i)

\* C2 witness: no index could be built in the request, the simple RAG the
\* vector module falls back to failed and the route's own run succeeded
C2_Witness ==
  /\ Answered /\ EngineAbsent /\ route_available /\ llamaindex_available
  /\ Len(stages) = 3
  /\ stages[1].name = "llamaindex_rag.initialize_index"
  /\ SimpleRan(2) /\ stages[2].llm = "failed"
  /\ SimpleRan(3) /\ stages[3].llm = "ok"
  /\ result.body.success

C9_NeverBlankContext ==
  phase = "answered" =>
    \A i \in 1..Len(stages) :
      (SimpleRan(i) /\ stages[i].llm # "not_called") =>
        /\ stages[i].context # << >>
        /\ (\A k \in 1..Len(stages[i].context) :
              stages[i].context[k].kind \notin { "snippet", "observation" })
             => stages[i].context = no_information_found

\* C9 witness: a query matching no vocabulary, nothing selected, LLM called
C9_Witness ==
  /\ phase = "answered" /\ request.query = Q_xyzzy
  /\ SimpleRan(Len(stages)) /\ LastStage.llm = "ok"
  /\ LastStage.observations = << >>
  /\ LastStage.context = no_information_found

\* C10: for a query with animal terms only, over a store holding plant and
\* animal category observations, the simple RAG selects no observation whose
\* category is plant.
C10_CategoryRestriction ==
  (/\ phase = "answered" /\ request.kind = "text"
   /\ is_animal_query(request.query) /\ ~is_plant_query(request.query)
   /\ \E k \in 1..Len(plants_csv \o animals_csv) :
        (plants_csv \o animals_csv)[k].category = "plant"
   /\ \E k \in 1..Len(plants_csv \o animals_csv) :
        (plants_csv \o animals_csv)[k].category = "animal")
  => \A i \in 1..Len(stages) :
       SimpleRan(i) =>
         \A k \in 1..Len(stages[i].observations) :
           stages[i].observations[k].category # "plant"

(***************************************************************************)
(* Properties of the index sync daemon (DaemonSpec, FairDaemonSpec)        *)
(***************************************************************************)

Occurrences(x, list) == Cardinality({ i \in 1..Len(list) : list[i] = x })

\* Thread t is inside the "with update_lock" block of update_rag_index
InSync(t) ==
  /\ locals[t].ret # ""
  /\ pc[t] \in { "sync_read", "log_read", "log_write", "sync_index",
                 "init_start", "init_build", "update_release" }

\* The caller thread has run the sync body at least twice, the last two
\* times over the same observations, and is back; nothing else has written
\* the ledger or the index meanwhile
SyncedTwice ==
  LET history == locals["caller"].history
      n == Len(history)
  IN  /\ pc["caller"] = "idle"
      /\ n >= 2 /\ history[n] = history[n - 1]
      /\ locals["index"].calls = 0

\* C4: after update_rag_index has run twice with an update pending over the
\* same observations, every id of them is in the ledger exactly once and
\* no document is in the vector index more than once.
C4_SyncTwiceIdempotent ==
  SyncedTwice =>
    LET history == locals["caller"].history
        O == history[Len(history)]
    IN  /\ \A k \in 1..Len(O) : Occurrences(O[k], ledger) = 1
        /\ \A k \in 1..Len(vector_index.observations) :
             Occurrences(vector_index.observations[k],
                         vector_index.observations) = 1

\* C4 witness: an observation saved after the import was logged and
\* inserted into the index by the first run, and the second run is over
C4_Witness ==
  /\ SyncedTwice
  /\ \E r \in notified :
       /\ InList(r.id, ledger)
       /\ vector_index.built
       /\ InList(r.id, vector_index.observations)

\* C5: an id once written to the ledger is never removed from it.
C5_LedgerMonotonic ==
  [][\A i \in 1..Len(ledger) : InList(ledger[i], ledger')]_vars

\* C6: a notification that arrives with no update pending and the cooldown
\* passed leads to the sync running to its end and the notifying call
\* returning.
C6_ImmediateUpdateReturns ==
  []((\E r \in notified : ~r.deferred /\ r.idle)
       => <>(pc["handler"] = "idle"))

\* The ids the handler gives to the observations it saves
NotifiedIds == 1..(2 + MaxCalls)

\* C7: every observation whose notification was delivered within the
\* cooldown is eventually in the ledger.
C7_DeferredUpdateHappens ==
  \A id \in NotifiedIds :
    []((\E r \in notified : r.id = id /\ r.deferred)
         => <>InList(id, ledger))

\* C8: no two threads are inside the sync body at the same time.
C8_OneSyncAtATime ==
  \A t1 \in Threads : \A t2 \in Threads :
    (InSync(t1) /\ InSync(t2)) => t1 = t2

\* C8 witness: the caller writes the ledger inside the sync body while the
\* handler and the timer thread wait for the lock
C8_Witness ==
  /\ InSync("caller") /\ pc["caller"] = "log_write"
  /\ update_lock = "caller"
  /\ pc["handler"] = "signal_update_needed"
  /\ pc["timer"] = "update_thread_func"

(***************************************************************************)
(* Observation selection of the simple RAG (specification Spec)            *)
(***************************************************************************)

\* The candidate pool of a query: the observations of its category
CandidatePool(query) ==
  IF is_plant_query(query) /\ ~is_animal_query(query) THEN plants_csv
  ELSE IF is_animal_query(query) /\ ~is_plant_query(query) THEN animals_csv
  ELSE plants_csv \o animals_csv

\* The species name of obs is not empty and is in the query, case ignored
NamedIn(query, obs) ==
  /\ obs.species_name # << >>
  /\ Contains(Lower(query), Lower(obs.species_name))

\* The simple RAG ran as stage i on a text query and selected observations
SimpleSelected(i) ==
  /\ phase = "answered" /\ request.kind = "text"
  /\ i \in 1..Len(stages) /\ SimpleRan(i)

\* C11 as claimed: when an observation of the pool is named in the query,
\* every such observation is selected and nothing else is.
C11_ExactMatchesAllSelected ==
  \A i \in 1..Len(stages) :
    LET pool == CandidatePool(request.query)
        selected == stages[i].observations
    IN  (SimpleSelected(i) /\ \E p \in 1..Len(pool) : NamedIn(request.query, pool[p]))
          => /\ \A p \in 1..Len(pool) :
                  NamedIn(request.query, pool[p]) => InList(pool[p], selected)
             /\ \A k \in 1..Len(selected) : NamedIn(request.query, selected[k])

\* C11 as amended: when an observation of the pool is named in the query,
\* only observations named in the query are selected (key terms are not
\* tried), and a named observation is selected exactly when fewer than
\* MaxSelected named observations come before it in the pool.
C11_ExactMatchesFirst ==
  \A i \in 1..Len(stages) :
    LET pool == CandidatePool(request.query)
        selected == stages[i].observations
        named == { p \in 1..Len(pool) : NamedIn(request.query, pool[p]) }
    IN  (SimpleSelected(i) /\ named # {})
          => /\ \A p \in named :
                  InList(pool[p], selected)
                    <=> Cardinality({ q \in named : q < p }) < MaxSelected
             /\ \A k \in 1..Len(selected) : NamedIn(request.query, selected[k])

\* C11 witness: the query names the griffon and a lake; the store has a
\* sighting at the lake and more griffon sightings than are returned
C11_Witness ==
  /\ SimpleSelected(Len(stages))
  /\ request.query = Q_griffon_rawal
  /\ Len(LastStage.observations) = MaxSelected
  /\ \E p \in 1..Len(animals_csv) :
       /\ Contains(Lower(animals_csv[p].location), Lower(Loc_rawal))
       /\ ~InList(animals_csv[p], LastStage.observations)
  /\ \E p \in 1..Len(animals_csv) :
       /\ NamedIn(request.query, animals_csv[p])
       /\ ~InList(animals_csv[p], LastStage.observations)

\* The query holds no term of the vocabulary of either term extractor
NoVocabularyTerm(query) ==
  /\ extract_key_terms(query) = << >>
  /\ llamaindex_extract_key_terms(query) = << >>

\* A text query without vocabulary terms was answered over a store and a
\* knowledge corpus that are not empty
AnsweredWithoutVocabulary ==
  /\ phase = "answered" /\ request.kind = "text"
  /\ NoVocabularyTerm(request.query)
  /\ plants_csv \o animals_csv # << >>
  /\ load_knowledge_files(knowledge_dir) # << >>

\* An observation of the store is named in the request's query
SpeciesNamed ==
  \E p \in 1..Len(plants_csv \o animals_csv) :
    NamedIn(request.query, (plants_csv \o animals_csv)[p])

\* C12 as claimed: a query without vocabulary terms is answered with an
\* empty observation list and a success flag equal to the outcome of the
\* LLM call that produced the answer.
C12_NoMatchNoObservations ==
  AnsweredWithoutVocabulary =>
    /\ result.body.observations = << >>
    /\ result.body.success = (LastStage.llm = "ok")

\* C12 as amended: a query without vocabulary terms is answered with a
\* success flag equal to the outcome of the LLM call that produced the
\* answer; its observation list is empty when the query names no species
\* of the store, and otherwise holds only observations of the species the
\* query names.
C12_NoMatchOnlyNamedSpecies ==
  AnsweredWithoutVocabulary =>
    /\ result.body.success = (LastStage.llm = "ok")
    /\ ~SpeciesNamed => result.body.observations = << >>
    /\ \A k \in 1..Len(result.body.observations) :
         Contains(Lower(request.query),
                  Lower(result.body.observations[k].species))

\* C12 witness: 'xyzzy' over a store with observations; the LLM call of
\* the simple RAG failed
C12_Witness ==
  /\ AnsweredWithoutVocabulary /\ request.query = Q_xyzzy
  /\ Len(plants_csv \o animals_csv) >= 2
  /\ SimpleRan(Len(stages)) /\ LastStage.llm = "failed"
  /\ ~result.body.success
  /\ result.body.observations = << >>

(***************************************************************************)
(* The vector engine (specification Spec)                                  *)
(***************************************************************************)

FileNames(dir) == [i \in 1..Len(dir) |-> dir[i].filename] \o << >>

\* C14: a step that builds the index over an empty knowledge directory
\* leaves the directory holding exactly the 3 default files and the index
\* built over them; whatever is written into an empty directory is the
\* default set; and an index is never built over zero knowledge documents.
C14_EmptyCorpusSeeded ==
  /\ [](vector_index.built =>
          /\ vector_index.knowledge # << >>
          /\ vector_index.knowledge = FileNames(knowledge_dir))
  /\ [][knowledge_dir = << >> =>
          /\ (vector_index' # vector_index \/ knowledge_dir' # << >>) =>
               /\ knowledge_dir' = default_knowledge
               /\ Len(knowledge_dir') = 3
          /\ vector_index' # vector_index =>
               vector_index'.knowledge = FileNames(default_knowledge)]_vars

\* C14 witness: the directory holds the default files, which only the
\* seeding of an empty directory writes, and the index is built over them
C14_Witness ==
  /\ knowledge_dir = default_knowledge
  /\ vector_index.built
  /\ vector_index.knowledge = FileNames(default_knowledge)
  /\ Len(vector_index.knowledge) = 3

\* C15: llamaindex_rag.process_query never raises: whenever it was called
\* in a request it returned a dict to handle_query.
C15_VectorQueryNeverRaises ==
  phase = "answered" =>
    \A i \in 1..Len(stages) :
      stages[i].name # "llamaindex_rag.process_query raised"

\* C18: within one request no stage runs twice; in particular
\* simple_rag.process_query runs at most once and a failed LLM call is not
\* made again.
C18_NoStageRetried ==
  phase = "answered" =>
    \A i \in 1..Len(stages) : \A j \in 1..Len(stages) :
      stages[i].name = stages[j].name => i = j

(***************************************************************************)
(* The sync action without the vector engine (specification DaemonSpec)    *)
(***************************************************************************)

\* Thread t has run the sync body and has left it
SyncDone(t) == locals[t].history # << >> /\ ~InSync(t) /\ pc[t] # "sync_read"

\* The ids of the store as the last sync of thread t read it
LastSynced(t) == locals[t].history[Len(locals[t].history)]

\* C16: without llama_index no vector index exists at any time, and once
\* a sync has completed every id of the store it read is in the ledger.
C16_LedgerOnlyWithoutEngine ==
  ~llamaindex_available =>
    /\ vector_index = NoIndex
    /\ \A t \in Threads :
         SyncDone(t) =>
           \A k \in 1..Len(LastSynced(t)) : InList(LastSynced(t)[k], ledger)

\* C16 witness: without llama_index, a sync has logged an observation that
\* a handler saved after the import
C16_Witness ==
  /\ ~llamaindex_available
  /\ SyncDone("caller") /\ pc["caller"] = "idle"
  /\ \E r \in notified :
       InList(r.id, LastSynced("caller")) /\ InList(r.id, ledger)
  /\ vector_index = NoIndex

(***************************************************************************)
(* The sync action after the loss of the ledger (specification             *)
(* RecoverySpec)                                                           *)
(***************************************************************************)

StoreRows == plants_csv \o animals_csv

\* The sync converts every observation of the store to a document, or
\* converts none (_update_simple_rag)
AllConverted ==
  \/ ~llamaindex_available
  \/ \A k \in 1..Len(StoreRows) :
       observation_to_document(StoreRows[k]) = "Document"

\* C13: the ledger file was deleted or does not parse; once a sync has
\* then completed over observations that all convert, the file holds a
\* list with every id the sync read exactly once, and nothing but ids of
\* the store, each once.
C13_LedgerRecovered ==
  \A t \in Threads :
    (SyncDone(t) /\ AllConverted) =>
      /\ ledger_file = "list"
      /\ \A k \in 1..Len(LastSynced(t)) :
           Occurrences(LastSynced(t)[k], ledger) = 1
      /\ \A k \in 1..Len(ledger) :
           /\ InList(ledger[k], Ids(StoreRows))
           /\ Occurrences(ledger[k], ledger) = 1

\* C13 witness: the file did not parse and still held the ids the import
\* had logged; the sync has written the two ids of the store anew
C13_Witness ==
  /\ SyncDone("caller") /\ pc["caller"] = "idle" /\ AllConverted
  /\ Len(locals["caller"].history) = 1
  /\ Len(LastSynced("caller")) = 2
  /\ ledger_file = "list"
  /\ ledger = LastSynced("caller")
  /\ vector_index.built

\* C17: once a sync with the vector engine has completed, every
\* observation it read whose document can be constructed is in the ledger,
\* whatever the other observations of the batch are.
C17_OnlyBadRecordSkipped ==
  \A t \in Threads :
    (SyncDone(t) /\ llamaindex_available) =>
      \A k \in 1..Len(StoreRows) :
        (/\ InList(StoreRows[k].id, LastSynced(t))
         /\ observation_to_document(StoreRows[k]) = "Document")
        => InList(StoreRows[k].id,
                  get_indexed_observations(ledger_file, ledger))

(***************************************************************************)
(* The write path (specification StoreSpec)                                *)
(***************************************************************************)

\* C19: process_new_observation is called (the thread enters
\* signal_update_needed) only when save() returned an id and the row with
\* that id is in the store; a request whose save failed makes no call.
C19_NotifiedAfterPersisted ==
  [][\A t \in Handlers :
       (pc[t] # "signal_update_needed" /\ pc'[t] = "signal_update_needed") =>
         /\ locals[t].observation # << >>
         /\ locals[t].observation[1].id # 0
         /\ locals'[t].todo = << locals[t].observation[1].id >>
         /\ InList(locals[t].observation[1].id, Ids(StoreRows))]_vars

\* C19 witness: both threads have served a request; one save failed, the
\* other row is in the store and was notified
C19_Witness ==
  /\ \A t \in Handlers : pc[t] = "idle" /\ locals[t].calls = 1
  /\ Len(StoreRows) = 1
  /\ notified # {}
  /\ \A r \in notified : r.id = StoreRows[1].id

\* C20: no two observations of the store have the same id.
C20_UniqueIds ==
  \A i \in 1..Len(StoreRows) : \A j \in 1..Len(StoreRows) :
    StoreRows[i].id = StoreRows[j].id => i = j

(***************************************************************************)
(* The sync and the vector index (specification DaemonSpec)                *)
(***************************************************************************)

\* Thread t has run the loop and the insertion of _update_llamaindex and
\* is about to leave update_rag_index
SyncOverIndex(t) ==
  /\ pc[t] = "update_release"
  /\ locals[t].proc = "_update_llamaindex"
  /\ locals[t].documents # << >>

\* C21: when a sync with the vector engine has dealt with its batch, every
\* id of the batch that is in the ledger has its document in the vector
\* index (an id is logged only once its document is inserted).
C21_LoggedOnlyOnceInserted ==
  \A t \in Threads :
    SyncOverIndex(t) =>
      \A k \in 1..Len(locals[t].documents) :
        InList(locals[t].documents[k], ledger)
          => InList(locals[t].documents[k], vector_index.observations)

\* Thread t is inside a function that writes the vector index: the
\* insertion of _update_llamaindex, or initialize_index from its first line
\* to its return
MutatesIndex(t) ==
  \/ pc[t] \in { "sync_index", "init_start", "init_build" }
  \/ pc[t] \in { "log_read", "log_write" } /\ locals[t].proc = "initialize_index"

\* C22: a thread inside a function that writes the vector index holds
\* update_lock, so no two threads are inside such functions at once.
C22_IndexWritesUnderLock ==
  /\ \A t \in Threads : MutatesIndex(t) => update_lock = t
  /\ \A t1 \in Threads : \A t2 \in Threads :
       (MutatesIndex(t1) /\ MutatesIndex(t2)) => t1 = t2

\* C23: when a thread leaves the sync, last_update_time is the time of
\* that moment.
C23_CompletionTimeRecorded ==
  [][\A t \in Threads :
       (pc[t] = "update_release" /\ pc'[t] # "update_release")
         => last_update_time' = now']_vars

\* Some thread has run the sync body before
SyncedBefore == \E t \in Threads : locals[t].history # << >>

AllInIndex(index) ==
  \A k \in 1..Len(StoreRows) : InList(StoreRows[k].id, index.observations)

\* C28: the index a sync builds, having found none, holds a document for
\* every observation of the store.
C28_SyncBuildsWholeIndex ==
  [][\A t \in Threads :
       (/\ pc[t] = "init_build" /\ locals[t].after = "update_release"
        /\ pc'[t] = "update_release"
        /\ ~vector_index.built /\ vector_index'.built)
         => AllInIndex(vector_index')]_vars

\* C29: the index initialize_index builds when called from the query path
\* holds a document for every observation of the store, whatever the
\* ledger file held.
C29_InitializeIndexesWholeStore ==
  [][\A t \in Threads :
       (/\ pc[t] = "init_build" /\ locals[t].after = "idle"
        /\ pc'[t] = "idle"
        /\ ~vector_index.built /\ vector_index'.built)
         => AllInIndex(vector_index')]_vars

\* C30: when the insertion of a sync has failed (the documents of the batch
\* are not in the index), the update is still pending.
C30_FailedSyncStaysPending ==
  \A t \in Threads :
    (/\ SyncOverIndex(t)
     /\ \E k \in 1..Len(locals[t].documents) :
          ~InList(locals[t].documents[k], vector_index.observations))
      => needs_update

(***************************************************************************)
(* The two observation lookups and the context (specification Spec)        *)
(***************************************************************************)

\* The set of the elements of a list
Range(list) == { list[k] : k \in 1..Len(list) }

\* C25: when llamaindex_rag.process_query has queried the index, the terms
\* it extracted from the query are those simple_rag.extract_key_terms
\* extracts and the observations it looked up are those
\* simple_rag.get_relevant_observations selects.
C25_SameObservationLookup ==
  \A i \in 1..Len(stages) :
    stages[i].name = "llamaindex_rag.query" =>
      /\ Range(llamaindex_extract_key_terms(request.query))
           = Range(extract_key_terms(request.query))
      /\ stages[i].observations
           = get_relevant_observations(request.query, plants_csv, animals_csv)

\* The texts of the knowledge snippets of a context, in their order
Snippets(context) ==
  LET pieces == SelectSeq(context, LAMBDA p : p.kind = "snippet")
  IN  [k \in 1..Len(pieces) |-> pieces[k].text]

\* The observation lines of a context
ObservationLines(context) ==
  SelectSeq(context, LAMBDA p : p.kind = "observation")

\* The stages of the request that ran simple_rag.process_query on a text
SimpleStages ==
  { i \in 1..Len(stages) :
      stages[i].name = "simple_rag.process_query" /\ request.kind = "text" }

\* The texts of the knowledge files the context was built over
KnowledgeTexts ==
  { f.content : f \in Range(load_knowledge_files(knowledge_dir)) }

C27_NoDuplicatesInContext ==
  \A i \in SimpleStages :
    /\ \A j \in 1..Len(Snippets(stages[i].context)) :
         \A k \in 1..Len(Snippets(stages[i].context)) :
           Snippets(stages[i].context)[j] = Snippets(stages[i].context)[k]
             => j = k
    /\ \A j \in 1..Len(stages[i].observations) :
         \A k \in 1..Len(stages[i].observations) :
           stages[i].observations[j] = stages[i].observations[k] => j = k
=============================================================================
